---- MODULE Spec2Model ----
(***************************************************************************)
(* Model of the V1 analysis orchestrator of strategem                      *)
(* (strategem/orchestrator.py with the V1 models): the claim validator,    *)
(* the per-framework sufficiency evaluator, the analysis sufficiency       *)
(* aggregator and the run_analysis_with_frameworks loop that composes      *)
(* them.                                                                   *)
(***************************************************************************)
EXTENDS Integers, Sequences, FiniteSets, TLC

VARIABLES
    \* ---- one call of the validators on an arbitrary input (SpecValidate)
    vpc,                 \* "input" | "bound" | "validated"
    vclaims,             \* the claims list handed to the validator
    voptions,            \* the options argument of validate_claims_option_binding
    vvalid,              \* list returned by validate_claims_option_binding
    vfr,                 \* the FrameworkResult object passed to validate_framework_sufficiency
    vfr_before,          \* its value at the moment of the call
    vcontext,            \* the ProblemContext passed along with it
    vret,                \* the FrameworkResult returned
    vret_is_arg,         \* TRUE iff the returned object is the argument object itself
    vret_before,         \* the value of the returned object when it is validated again
    vagain,              \* the FrameworkResult the second validation returned
    \* ---- one run of run_analysis_with_frameworks (Spec)
    pc,                  \* "start" | "loop" | "validate" | "summary" | "done"
    context,             \* ProblemContext: decision_focus and the text the extractor reads
    prompt_context,      \* context.structured_content or context.raw_content
    frameworks,          \* requested framework names
    idx,                 \* position of the for loop over frameworks
    decision_binding,    \* the local variable of run_analysis_with_frameworks
    result,              \* FrameworkResult returned by run_framework, before validation
    raised,              \* per executed framework: str(e) of the LLMError caught, or None
    escaped,             \* type of the exception that left run_analysis_with_frameworks, or None
    framework_results,   \* list of validated FrameworkResults
    porter_result, systems_result, porter_error, systems_error,
    analysis_sufficiency, \* AnalysisSufficiencySummary or NoSummary
    \* ---- one call of LLMInferenceClient.run_analysis (SpecRetry)
    retry_pc,            \* "call" | "parse" | "returned" | "raised"
    max_retries,         \* the max_retries argument
    attempt,             \* the loop variable of `for attempt in range(max_retries + 1)`
    response_text,       \* what call_api returned in the current attempt
    last_error,          \* the local variable last_error
    calls,               \* number of remote calls made so far
    failed,              \* number of attempts that ended in an exception
    retry_outcome,       \* what run_analysis returned or raised
    \* ---- one call of parse_response or of its JSON extractor (SpecParse)
    parse_pc,            \* "input" | "extracted" | "parsed"
    raw_text,            \* the response text
    extracted_json,      \* the json_data that _extract_json_from_markdown returned
    parsed,              \* what parse_response returned or raised
    \* ---- one call of _convert_keys_to_snake_case (SpecNormalize)
    norm_pc,             \* "input" | "converted" | "reconverted"
    norm_data,           \* the object passed as `data`
    norm_data_before,    \* its value at the moment of the call
    norm_result,         \* the object returned
    norm_again,          \* what a second call, on the object returned, returns
    \* ---- one call of V2AnalysisOrchestrator.run_full_analysis (SpecV2)
    v2_pc,               \* "start" | "loop" | "returned" | "raised"
    v2_decision,         \* the Decision argument
    v2_options,          \* the names of the Option objects passed, in order
    v2_requested,        \* the frameworks argument: a list of names, or NoFrameworks
    v2_frameworks,       \* the local list the for loop runs over
    v2_framework_results, \* the local list framework_results
    v2_llm_calls,        \* number of calls of self.llm.run_analysis made so far
    v2_raised,           \* str(e) of the ValueError raised, or None
    v2_analysis,         \* the AnalysisResult returned, or NoAnalysis
    \* ---- one call of DecisionFocusExtractor.extract (SpecExtract)
    ex_pc,               \* "input" | "extracted"
    ex_focus,            \* context.decision_focus
    ex_material,         \* what the patterns of the extractor find in the context's text
    ex_alternatives,     \* what _extract_alternatives returned, if it was called
    ex_result,           \* the DecisionFocus returned, or NoDecisionFocus for None
    \* ---- one call of each _yaml_to_dict on the same text (SpecYaml)
    yaml_done,           \* which of the two parsers have been called on it
    yaml_lines,          \* yaml_text.split("\n")
    yaml_core,           \* what LLMInferenceClient._yaml_to_dict returned or raised
    yaml_layer           \* what LLMInferenceLayer._yaml_to_dict returned or raised

vvars == <<vpc, vclaims, voptions, vvalid, vfr, vfr_before, vcontext, vret, vret_is_arg,
           vret_before, vagain>>
rvars == <<pc, context, prompt_context, frameworks, idx, decision_binding, result, raised,
           escaped, framework_results,
           porter_result, systems_result, porter_error, systems_error,
           analysis_sufficiency>>
tvars == <<retry_pc, max_retries, attempt, response_text, last_error, calls, failed, retry_outcome>>
pvars == <<parse_pc, raw_text, extracted_json, parsed>>
nvars == <<norm_pc, norm_data, norm_data_before, norm_result, norm_again>>
ovars == <<v2_pc, v2_decision, v2_options, v2_requested, v2_frameworks,
           v2_framework_results, v2_llm_calls, v2_raised, v2_analysis>>
evars == <<ex_pc, ex_focus, ex_material, ex_alternatives, ex_result>>
yvars == <<yaml_done, yaml_lines, yaml_core, yaml_layer>>
xvars == <<ovars, evars, yvars>>
lvars == <<tvars, pvars, nvars, xvars>>
vars == <<vvars, rvars, lvars>>

----------------------------------------------------------------------------
\* Bounds of the model

\* longest claims list handed directly to the validators
MaxClaims == 2
\* longest applicable_options list of a claim
MaxAppOpts == 2
\* longest list of requested frameworks in one run
MaxFrameworks == 2
\* longest claims list a framework's typed result carries in a run
MaxRunClaims == 1

----------------------------------------------------------------------------
\* Values

\* Python's None, for the Optional[str] / Optional[Any] fields
None == "None"

\* enums.py
OPTION_SPECIFIC == "option_specific"
COMPARATIVE == "comparative"
SYSTEM_LEVEL == "system_level"
ClaimType == {OPTION_SPECIFIC, COMPARATIVE, SYSTEM_LEVEL}

SUCCESSFUL == "successful"
INSUFFICIENT == "insufficient"
FAILED == "failed"
FrameworkExecutionStatus == {SUCCESSFUL, INSUFFICIENT, FAILED}

DECISION_CONTEXT_PRESENT == "decision_context_present"
GENUINELY_AMBIGUOUS == "genuinely_ambiguous"

COMPLETE == "complete"
PARTIAL == "partial"
NOT_APPLICABLE == "not_applicable"

DECISION_RELEVANT_REASONING_PRODUCED == "decision_relevant_reasoning_produced"
DECISION_RELEVANT_BUT_CONSTRAINED == "decision_relevant_but_constrained"
EXPLORATORY_PRE_DECISION == "exploratory_pre_decision"

\* sequences over S of length at most n
SeqsUpTo(S, n) == UNION {[1..k -> S] : k \in 0..n}

\* the entries an applicable_options list is drawn from
OptionTokens == {"A", "B", "all"}
\* applicable_options lists: no entry named twice
AppOptions ==
    {o \in SeqsUpTo(OptionTokens, MaxAppOpts) :
        \A i, j \in 1..Len(o) : o[i] = o[j] => i = j}

\* AnalyticalClaim: claim_type is declared `str`, so a value outside the
\* enum is a constructible claim
AnalyticalClaim(t, o) == [claim_type |-> t, applicable_options |-> o]
ClaimUniverse ==
    {AnalyticalClaim(t, o) : t \in ClaimType, o \in AppOptions}
    \cup {AnalyticalClaim("other", o) : o \in {<<>>, <<"all">>}}

\* DecisionFocus: Optional on the ProblemContext; options is an unconstrained List[str]
NoDecisionFocus == [present |-> FALSE, options |-> <<>>]
DecisionFocus(opts) == [present |-> TRUE, options |-> opts]

\* FrameworkResult with the defaults of its declaration
FrameworkResult(name, success, res, err, claims, status, reason) ==
    [framework_name |-> name, success |-> success, result |-> res,
     error_message |-> err, claims |-> claims,
     execution_status |-> status, execution_reason |-> reason]

NoResult == FrameworkResult(None, FALSE, None, None, <<>>, FAILED, None)

AnalysisSufficiencySummary(db, oc, fc, os) ==
    [decision_binding |-> db, option_coverage |-> oc,
     framework_coverage |-> fc, overall_status |-> os]
NoSummary == AnalysisSufficiencySummary(None, None, None, None)

InsufficientReason == "Framework produced no valid claims affecting the decision space"

----------------------------------------------------------------------------
\* Claim Validator (AnalysisOrchestrator.validate_claims_option_binding)

\* `claim.applicable_options if claim.applicable_options else []`:
\* the field is a List[str], and the empty list is replaced by the empty list
applicable_options_of(claim) == claim.applicable_options

\* the three `continue` branches of the loop body: TRUE iff the claim is
\* appended to rejected_claims instead of valid_claims
ClaimRejected_OptionSpecificAtLeastOne(claim) ==
    LET claim_type == claim.claim_type
        applicable_options == applicable_options_of(claim)
    IN  IF claim_type = OPTION_SPECIFIC THEN Len(applicable_options) < 1
        ELSE IF claim_type = COMPARATIVE THEN Len(applicable_options) < 2
        ELSE IF claim_type = SYSTEM_LEVEL THEN applicable_options # <<"all">>
        ELSE FALSE

ClaimRejected_SystemLevelContainsAll(claim) ==
    LET claim_type == claim.claim_type
        applicable_options == applicable_options_of(claim)
    IN  IF claim_type = OPTION_SPECIFIC THEN Len(applicable_options) # 1
        ELSE IF claim_type = COMPARATIVE THEN Len(applicable_options) < 2
        ELSE IF claim_type = SYSTEM_LEVEL
             THEN ~(\E k \in 1..Len(applicable_options) : applicable_options[k] = "all")
        ELSE FALSE

ClaimRejected_ComparativeAtLeastOne(claim) ==
    LET claim_type == claim.claim_type
        applicable_options == applicable_options_of(claim)
    IN  IF claim_type = OPTION_SPECIFIC THEN Len(applicable_options) # 1
        ELSE IF claim_type = COMPARATIVE THEN Len(applicable_options) < 1
        ELSE IF claim_type = SYSTEM_LEVEL THEN applicable_options # <<"all">>
        ELSE FALSE

ClaimRejected(claim) ==
    LET claim_type == claim.claim_type
        applicable_options == applicable_options_of(claim)
    IN  IF claim_type = OPTION_SPECIFIC THEN Len(applicable_options) # 1
        ELSE IF claim_type = COMPARATIVE THEN Len(applicable_options) < 2
        ELSE IF claim_type = SYSTEM_LEVEL THEN applicable_options # <<"all">>
        ELSE FALSE

\* the for loop: position k, valid_claims accumulated so far
RECURSIVE validate_loop(_, _, _)
validate_loop(claims, k, valid_claims) ==
    IF k > Len(claims) THEN valid_claims
    ELSE IF ClaimRejected(claims[k])
         THEN validate_loop(claims, k + 1, valid_claims)
         ELSE validate_loop(claims, k + 1, Append(valid_claims, claims[k]))

\* a validator that reclassifies an invalid claim as system_level instead of
\* dropping it
RECURSIVE reclassify_loop(_, _, _)
reclassify_loop(claims, k, valid_claims) ==
    IF k > Len(claims) THEN valid_claims
    ELSE IF ClaimRejected(claims[k])
         THEN reclassify_loop(claims, k + 1,
                  Append(valid_claims, AnalyticalClaim(SYSTEM_LEVEL, <<"all">>)))
         ELSE reclassify_loop(claims, k + 1, Append(valid_claims, claims[k]))

validate_claims_option_binding_Reclassify(claims, options) ==
    reclassify_loop(claims, 1, <<>>)

\* a validator that also drops a claim naming something that is neither one
\* of `options` nor "all"
validate_claims_option_binding_KnownOptions(claims, options) ==
    SelectSeq(validate_loop(claims, 1, <<>>),
              LAMBDA claim :
                  \A k \in 1..Len(claim.applicable_options) :
                      \/ claim.applicable_options[k] = "all"
                      \/ \E n \in 1..Len(options) :
                             options[n] = claim.applicable_options[k])

\* `options` is accepted and never read
validate_claims_option_binding(claims, options) ==
    validate_loop(claims, 1, <<>>)

----------------------------------------------------------------------------
\* Framework Sufficiency Evaluator (AnalysisOrchestrator.validate_framework_sufficiency)

\* `context.decision_focus.options if context.decision_focus else []`
options_of(ctx) ==
    IF ctx.decision_focus.present THEN ctx.decision_focus.options ELSE <<>>

\* `if not framework_result.success:` branch; error_message, result and claims
\* take the defaults of the FrameworkResult declaration
FailedResult_FixedReason(framework_result) ==
    FrameworkResult(framework_result.framework_name, FALSE, None, None, <<>>,
                    FAILED, "Framework execution failed")

FailedResult(framework_result) ==
    FrameworkResult(framework_result.framework_name, FALSE, None, None, <<>>,
                    FAILED, framework_result.error_message)

\* `if not valid_claims:` branch
InsufficientResult_NoReason(framework_result) ==
    FrameworkResult(framework_result.framework_name, TRUE, framework_result.result,
                    None, <<>>, INSUFFICIENT, None)

InsufficientResult(framework_result) ==
    FrameworkResult(framework_result.framework_name, TRUE, framework_result.result,
                    None, <<>>, INSUFFICIENT, InsufficientReason)

\* the fall-through: the argument object itself gets claims and
\* execution_status assigned and is returned
SuccessfulResult_KeepAllClaims(framework_result, valid_claims) ==
    [framework_result EXCEPT !.execution_status = SUCCESSFUL]

SuccessfulResult(framework_result, valid_claims) ==
    [framework_result EXCEPT !.claims = valid_claims,
                             !.execution_status = SUCCESSFUL]

\* arg: the argument object after the call; ret: the returned object;
\* same: the returned object is the argument object
validate_framework_sufficiency_NoDowngrade(framework_result, ctx) ==
    IF ~framework_result.success
    THEN [ret |-> FailedResult(framework_result), arg |-> framework_result, same |-> FALSE]
    ELSE LET valid_claims ==
                 validate_claims_option_binding(framework_result.claims, options_of(ctx))
             updated == SuccessfulResult(framework_result, valid_claims)
         IN  [ret |-> updated, arg |-> updated, same |-> TRUE]

validate_framework_sufficiency(framework_result, ctx) ==
    IF ~framework_result.success
    THEN [ret |-> FailedResult(framework_result), arg |-> framework_result, same |-> FALSE]
    ELSE LET valid_claims ==
                 validate_claims_option_binding(framework_result.claims, options_of(ctx))
         IN  IF valid_claims = <<>>
             THEN [ret |-> InsufficientResult(framework_result),
                   arg |-> framework_result, same |-> FALSE]
             ELSE LET updated == SuccessfulResult(framework_result, valid_claims)
                  IN  [ret |-> updated, arg |-> updated, same |-> TRUE]

----------------------------------------------------------------------------
\* Analysis Sufficiency Aggregator (AnalysisOrchestrator.compute_analysis_sufficiency)

\* a pydantic model instance is truthy, so `not decision_focus` tests for None
decision_binding_of(ctx) ==
    IF ~ctx.decision_focus.present THEN GENUINELY_AMBIGUOUS
    ELSE DECISION_CONTEXT_PRESENT

\* all_claims: the claims of every framework result, concatenated
RECURSIVE all_claims_of(_)
all_claims_of(fw_results) ==
    IF fw_results = <<>> THEN <<>>
    ELSE Head(fw_results).claims \o all_claims_of(Tail(fw_results))

\* an option counted only when it is the sole entry of a claim
option_covered_SoleEntry(opt, all_claims) ==
    \E c \in 1..Len(all_claims) : all_claims[c].applicable_options = <<opt>>

\* the entry "all" counted toward every option
option_covered_AllCoversEvery(opt, all_claims) ==
    \E c \in 1..Len(all_claims) :
        \E k \in 1..Len(all_claims[c].applicable_options) :
            all_claims[c].applicable_options[k] \in {opt, "all"}

\* option_claim_map[opt] after the two nested loops
option_covered(opt, all_claims) ==
    \E c \in 1..Len(all_claims) :
        \E k \in 1..Len(all_claims[c].applicable_options) :
            all_claims[c].applicable_options[k] = opt

option_coverage_of(ctx, fw_results) ==
    IF ~ctx.decision_focus.present THEN NOT_APPLICABLE
    ELSE LET options == ctx.decision_focus.options
         IN  IF Len(options) = 0 THEN NOT_APPLICABLE
             ELSE LET all_claims == all_claims_of(fw_results)
                      uncovered_options ==
                          {k \in 1..Len(options) : ~option_covered(options[k], all_claims)}
                  IN  IF uncovered_options # {} THEN PARTIAL ELSE COMPLETE

\* every framework that did not fail counted as successful
framework_coverage_of_NotFailed(fw_results) ==
    IF Len(fw_results) > 0
    THEN LET successful_frameworks ==
                 Cardinality({k \in 1..Len(fw_results) :
                                 fw_results[k].execution_status # FAILED})
             total_frameworks == Len(fw_results)
         IN  IF successful_frameworks < total_frameworks THEN PARTIAL ELSE COMPLETE
    ELSE COMPLETE

framework_coverage_of(fw_results) ==
    IF Len(fw_results) > 0
    THEN LET successful_frameworks ==
                 Cardinality({k \in 1..Len(fw_results) :
                                 fw_results[k].execution_status = SUCCESSFUL})
             total_frameworks == Len(fw_results)
         IN  IF successful_frameworks < total_frameworks THEN PARTIAL ELSE COMPLETE
    ELSE COMPLETE

\* coverage consulted before the binding
overall_status_of_CoverageFirst(binding, option_coverage, framework_coverage) ==
    IF option_coverage = PARTIAL \/ framework_coverage = PARTIAL
    THEN DECISION_RELEVANT_BUT_CONSTRAINED
    ELSE IF binding = GENUINELY_AMBIGUOUS THEN EXPLORATORY_PRE_DECISION
    ELSE DECISION_RELEVANT_REASONING_PRODUCED

\* `and` in place of `or`
overall_status_of_BothPartial(binding, option_coverage, framework_coverage) ==
    IF binding = GENUINELY_AMBIGUOUS THEN EXPLORATORY_PRE_DECISION
    ELSE IF option_coverage = PARTIAL /\ framework_coverage = PARTIAL
    THEN DECISION_RELEVANT_BUT_CONSTRAINED
    ELSE DECISION_RELEVANT_REASONING_PRODUCED

overall_status_of(binding, option_coverage, framework_coverage) ==
    IF binding = GENUINELY_AMBIGUOUS THEN EXPLORATORY_PRE_DECISION
    ELSE IF option_coverage = PARTIAL \/ framework_coverage = PARTIAL
    THEN DECISION_RELEVANT_BUT_CONSTRAINED
    ELSE DECISION_RELEVANT_REASONING_PRODUCED

compute_analysis_sufficiency(ctx, fw_results) ==
    LET binding == decision_binding_of(ctx)
        option_coverage == option_coverage_of(ctx, fw_results)
        framework_coverage == framework_coverage_of(fw_results)
    IN  AnalysisSufficiencySummary(binding, option_coverage, framework_coverage,
            overall_status_of(binding, option_coverage, framework_coverage))

----------------------------------------------------------------------------
\* Decision focus inference (DecisionFocusExtractor.extract)

\* what the heuristics read off the context text: whether a decision verb
\* occurs, the alternatives found, whether a decision owner is named
Text(choice, alts, owner) ==
    [choice_implied |-> choice, alternatives |-> alts, has_owner |-> owner]
NoText == Text(FALSE, <<>>, FALSE)

ProblemContext(df, text) == [decision_focus |-> df, text |-> text]

\* a gate content with a single alternative
apply_decision_inference_gate_OneAlternative(ctx) ==
    IF ~ctx.text.choice_implied THEN NoDecisionFocus
    ELSE IF Len(ctx.text.alternatives) < 1 THEN NoDecisionFocus
    ELSE IF ~ctx.text.has_owner THEN NoDecisionFocus
    ELSE DecisionFocus(ctx.text.alternatives)

\* all three criteria or nothing
apply_decision_inference_gate(ctx) ==
    IF ~ctx.text.choice_implied THEN NoDecisionFocus
    ELSE IF Len(ctx.text.alternatives) < 2 THEN NoDecisionFocus
    ELSE IF ~ctx.text.has_owner THEN NoDecisionFocus
    ELSE DecisionFocus(ctx.text.alternatives)

\* an explicit decision focus is returned as it is, without validation
extract(ctx) ==
    IF ctx.decision_focus.present THEN ctx.decision_focus
    ELSE apply_decision_inference_gate(ctx)

----------------------------------------------------------------------------
\* One framework execution (AnalysisOrchestrator.run_framework)

RegisteredFrameworks == {"porter", "systems_dynamics"}
FrameworkNames == RegisteredFrameworks \cup {"swot"}

\* the typed payload bound from the model's response
PayloadOf(framework_name) ==
    IF framework_name = "porter" THEN "PorterAnalysis" ELSE "SystemsDynamicsAnalysis"

\* str(e) of the LLMError raised once the retries are exhausted
LLMErrors == {"V1 analysis failed: API request failed",
              "V1 analysis failed: Failed to parse response"}
UnknownFrameworkMessage == "Unknown framework: swot"

\* the claims a model response may carry in a run
RunClaimUniverse ==
    {AnalyticalClaim(OPTION_SPECIFIC, <<"A">>),
     AnalyticalClaim(OPTION_SPECIFIC, <<"B">>),
     AnalyticalClaim(COMPARATIVE, <<"A", "B">>),
     AnalyticalClaim(SYSTEM_LEVEL, <<"all">>),
     AnalyticalClaim(OPTION_SPECIFIC, <<>>),
     AnalyticalClaim(SYSTEM_LEVEL, <<"A">>)}

\* outcome of self.llm.run_analysis: a typed result with its claims, or LLMError
LLMOutcomes ==
    {[ok |-> TRUE, claims |-> cl, error |-> None] :
        cl \in SeqsUpTo(RunClaimUniverse, MaxRunClaims)}
    \cup {[ok |-> FALSE, claims |-> <<>>, error |-> e] : e \in LLMErrors}

\* the `except LLMError as e` clause: the message of the exception caught, if any
raised_by(framework_name, outcome) ==
    IF framework_name \in RegisteredFrameworks /\ ~outcome.ok THEN outcome.error ELSE None

\* self.llm.run_analysis formats the user prompt before its try block:
\* template.replace("{context}", context) is a TypeError when context is None,
\* and `except LLMError` in run_framework does not catch it
escaping(framework_name, content) ==
    IF framework_name \in RegisteredFrameworks /\ content = None
    THEN "TypeError" ELSE None

run_framework(framework_name, outcome) ==
    IF framework_name \notin RegisteredFrameworks
    THEN FrameworkResult(framework_name, FALSE, None, UnknownFrameworkMessage, <<>>,
                         FAILED, UnknownFrameworkMessage)
    ELSE IF outcome.ok
    THEN FrameworkResult(framework_name, TRUE, PayloadOf(framework_name), None,
                         outcome.claims, SUCCESSFUL, None)
    ELSE FrameworkResult(framework_name, FALSE, None, outcome.error, <<>>,
                         FAILED, outcome.error)

----------------------------------------------------------------------------
\* Direct calls of the two validators on arbitrary inputs

OptionLists == {<<>>, <<"A", "B">>, <<"B", "C">>}
ValidatorContexts ==
    {ProblemContext(NoDecisionFocus, NoText),
     ProblemContext(DecisionFocus(<<"A", "B">>), NoText)}

\* FrameworkResults a caller may pass: a bound result carrying claims, or a
\* failed one carrying the error message
InputResults(claims) ==
    {FrameworkResult("porter", TRUE, "PorterAnalysis", None, claims, SUCCESSFUL, None)}
    \cup {FrameworkResult("porter", FALSE, None, e, claims, FAILED, e) : e \in LLMErrors}

\* the LLM client is not running
NoError == [stage |-> None, type |-> None, message |-> None, at |-> 0]
NoOutcome == [status |-> "pending", bound_from |-> None, at |-> 0, type |-> None,
              attempts |-> 0, last |-> NoError]
NoResponse == [received |-> FALSE]
IdleRetry ==
    /\ retry_pc = "idle"
    /\ max_retries = 0
    /\ attempt = 0
    /\ response_text = NoResponse
    /\ last_error = NoError
    /\ calls = 0
    /\ failed = 0
    /\ retry_outcome = NoOutcome
NoJson == [found |-> FALSE, value |-> <<>>, via |-> None]
NoParse == [ok |-> FALSE, bound_from |-> None, value |-> <<>>, error |-> NoError,
            consulted |-> <<>>, produced |-> <<>>]
IdleParse ==
    /\ parse_pc = "idle"
    /\ raw_text = <<>>
    /\ extracted_json = NoJson
    /\ parsed = NoParse
\* Python values handed to the key normaliser: a scalar, a dict (entries in
\* insertion order) or a list
Scalar(atom) == [kind |-> "scalar", atom |-> atom, entries |-> <<>>, items |-> <<>>]
Dict(entries) == [kind |-> "dict", atom |-> None, entries |-> entries, items |-> <<>>]
List(items) == [kind |-> "list", atom |-> None, entries |-> <<>>, items |-> items]
Entry(k, v) == [key |-> k, value |-> v]
IdleNormalize ==
    /\ norm_pc = "idle"
    /\ norm_data = Scalar(None)
    /\ norm_data_before = Scalar(None)
    /\ norm_result = Scalar(None)
    /\ norm_again = Scalar(None)
\* the V2 orchestrator is not running
Decision(question) == [decision_question |-> question]
\* frameworks: Optional[List[str]] = None
NoFrameworks == [given |-> FALSE, names |-> <<>>]
Requested(names) == [given |-> TRUE, names |-> names]
NoAnalysis == [returned |-> FALSE, options_analyzed |-> <<>>, framework_results |-> <<>>]
IdleV2 ==
    /\ v2_pc = "idle"
    /\ v2_decision = Decision("")
    /\ v2_options = <<>>
    /\ v2_requested = NoFrameworks
    /\ v2_frameworks = <<>>
    /\ v2_framework_results = <<>>
    /\ v2_llm_calls = 0
    /\ v2_raised = None
    /\ v2_analysis = NoAnalysis
\* the decision focus extractor is not running
NoMatch == [matched |-> FALSE, parts |-> <<>>]
Material(long, choice, owner, vs, ors, numbered, objectives, between) ==
    [long_enough |-> long, choice_implied |-> choice, has_owner |-> owner,
     vs |-> vs, ors |-> ors, numbered |-> numbered, objectives |-> objectives,
     between |-> between]
NoMaterial == Material(FALSE, FALSE, FALSE, <<>>, <<>>, <<>>, <<>>, NoMatch)
IdleExtract ==
    /\ ex_pc = "idle"
    /\ ex_focus = NoDecisionFocus
    /\ ex_material = NoMaterial
    /\ ex_alternatives = <<>>
    /\ ex_result = NoDecisionFocus
\* the fallback parsers are not running
NoDict == [raised |-> None, value |-> Dict(<<>>)]
\* no text has been handed to them
NoLines == <<>>
IdleYaml ==
    /\ yaml_done = {}
    /\ yaml_lines = NoLines
    /\ yaml_core = NoDict
    /\ yaml_layer = NoDict
IdleExtra == IdleV2 /\ IdleExtract /\ IdleYaml
IdleClient == IdleRetry /\ IdleParse /\ IdleNormalize /\ IdleExtra

IdleRun ==
    /\ pc = "idle"
    /\ context = ProblemContext(NoDecisionFocus, NoText)
    /\ prompt_context = None
    /\ escaped = None
    /\ frameworks = <<>>
    /\ idx = 1
    /\ decision_binding = None
    /\ result = NoResult
    /\ raised = <<>>
    /\ framework_results = <<>>
    /\ porter_result = None
    /\ systems_result = None
    /\ porter_error = None
    /\ systems_error = None
    /\ analysis_sufficiency = NoSummary

InitValidate ==
    /\ vpc = "input"
    /\ vclaims \in SeqsUpTo(ClaimUniverse, MaxClaims)
    /\ voptions = <<>>
    /\ vvalid = <<>>
    /\ vfr = NoResult
    /\ vfr_before = NoResult
    /\ vcontext = ProblemContext(NoDecisionFocus, NoText)
    /\ vret = NoResult
    /\ vret_is_arg = FALSE
    /\ vret_before = NoResult
    /\ vagain = NoResult
    /\ IdleRun
    /\ IdleClient

CallValidateClaims ==
    /\ vpc = "input"
    /\ \E options \in OptionLists :
        /\ voptions' = options
        /\ vvalid' = validate_claims_option_binding(vclaims, options)
    /\ vpc' = "bound"
    /\ UNCHANGED <<vclaims, vfr, vfr_before, vcontext, vret, vret_is_arg,
                   vret_before, vagain>>
    /\ UNCHANGED rvars
    /\ UNCHANGED lvars

CallValidateSufficiency ==
    /\ vpc = "input"
    /\ \E ctx \in ValidatorContexts, fr \in InputResults(vclaims) :
        LET r == validate_framework_sufficiency(fr, ctx)
        IN  /\ vcontext' = ctx
            /\ vfr_before' = fr
            /\ vfr' = r.arg
            /\ vret' = r.ret
            /\ vret_is_arg' = r.same
    /\ vpc' = "validated"
    /\ UNCHANGED <<vclaims, voptions, vvalid, vret_before, vagain>>
    /\ UNCHANGED rvars
    /\ UNCHANGED lvars

\* validate_framework_sufficiency called on the object it returned, with the
\* same context; the object is the first argument too when vret_is_arg
CallValidateSufficiencyAgain ==
    /\ vpc = "validated"
    /\ LET r == validate_framework_sufficiency(vret, vcontext)
       IN  /\ vret_before' = vret
           /\ vret' = r.arg
           /\ vfr' = IF vret_is_arg THEN r.arg ELSE vfr
           /\ vagain' = r.ret
    /\ vpc' = "revalidated"
    /\ UNCHANGED <<vclaims, voptions, vvalid, vfr_before, vcontext, vret_is_arg>>
    /\ UNCHANGED rvars
    /\ UNCHANGED lvars

NextValidate ==
    CallValidateClaims \/ CallValidateSufficiency \/ CallValidateSufficiencyAgain

SpecValidate == InitValidate /\ [][NextValidate]_vars

----------------------------------------------------------------------------
\* One run of AnalysisOrchestrator.run_analysis_with_frameworks

ExplicitOptions == {<<>>, <<"A">>, <<"A", "B">>, <<"A", "B", "C">>}
\* texts passing the inference gate, and texts failing exactly one criterion
Texts ==
    {Text(TRUE, <<"A", "B">>, TRUE), Text(FALSE, <<"A", "B">>, TRUE),
     Text(TRUE, <<"A">>, TRUE), Text(TRUE, <<"A", "B">>, FALSE)}
Contexts ==
    {ProblemContext(DecisionFocus(o), NoText) : o \in ExplicitOptions}
    \cup {ProblemContext(NoDecisionFocus, t) : t \in Texts}

\* the legacy content fields are Optional[str]: some text, or both None
PromptContexts == {"text", None}

IdleValidate ==
    /\ vpc = "idle"
    /\ vclaims = <<>>
    /\ voptions = <<>>
    /\ vvalid = <<>>
    /\ vfr = NoResult
    /\ vfr_before = NoResult
    /\ vcontext = ProblemContext(NoDecisionFocus, NoText)
    /\ vret = NoResult
    /\ vret_is_arg = FALSE
    /\ vret_before = NoResult
    /\ vagain = NoResult

Init ==
    /\ pc = "start"
    /\ context \in Contexts
    /\ prompt_context \in PromptContexts
    /\ escaped = None
    /\ frameworks \in SeqsUpTo(FrameworkNames, MaxFrameworks)
    /\ idx = 1
    /\ decision_binding = None
    /\ result = NoResult
    /\ raised = <<>>
    /\ framework_results = <<>>
    /\ porter_result = None
    /\ systems_result = None
    /\ porter_error = None
    /\ systems_error = None
    /\ analysis_sufficiency = NoSummary
    /\ IdleValidate
    /\ IdleClient

\* infer_decision_binding, then attach the inferred focus to the context
InferDecisionBinding ==
    /\ pc = "start"
    /\ LET decision_focus == extract(context)
       IN  IF decision_focus.present /\ ~context.decision_focus.present
           THEN /\ context' = [context EXCEPT !.decision_focus = decision_focus]
                /\ decision_binding' = DECISION_CONTEXT_PRESENT
           ELSE /\ context' = context
                /\ decision_binding' = GENUINELY_AMBIGUOUS
    /\ pc' = "loop"
    /\ UNCHANGED <<frameworks, idx, result, raised, framework_results, porter_result,
                   systems_result, porter_error, systems_error, analysis_sufficiency>>
    /\ UNCHANGED <<prompt_context, escaped>>
    /\ UNCHANGED vvars
    /\ UNCHANGED lvars

\* loop body, first statement: result = self.run_framework(framework_name, context)
RunFramework ==
    /\ pc = "loop"
    /\ idx <= Len(frameworks)
    /\ IF escaping(frameworks[idx], prompt_context) # None
       THEN /\ escaped' = escaping(frameworks[idx], prompt_context)
            /\ pc' = "raised"
            /\ UNCHANGED <<result, raised>>
       ELSE /\ \E outcome \in LLMOutcomes :
                /\ result' = run_framework(frameworks[idx], outcome)
                /\ raised' = Append(raised, raised_by(frameworks[idx], outcome))
            /\ pc' = "validate"
            /\ escaped' = escaped
    /\ UNCHANGED <<context, prompt_context, frameworks, idx, decision_binding,
                   framework_results, porter_result, systems_result, porter_error,
                   systems_error, analysis_sufficiency>>
    /\ UNCHANGED vvars
    /\ UNCHANGED lvars

\* loop body, rest: validate, append, set the backward-compatibility fields
ValidateAndRecord ==
    /\ pc = "validate"
    /\ LET validated == validate_framework_sufficiency(result, context).ret
           framework_name == frameworks[idx]
       IN  /\ result' = validated
           /\ framework_results' = Append(framework_results, validated)
           /\ porter_result' =
                  IF framework_name = "porter" /\ validated.success
                  THEN validated.result ELSE porter_result
           /\ porter_error' =
                  IF framework_name = "porter" /\ ~validated.success
                  THEN validated.error_message ELSE porter_error
           /\ systems_result' =
                  IF framework_name = "systems_dynamics" /\ validated.success
                  THEN validated.result ELSE systems_result
           /\ systems_error' =
                  IF framework_name = "systems_dynamics" /\ ~validated.success
                  THEN validated.error_message ELSE systems_error
    /\ idx' = idx + 1
    /\ pc' = "loop"
    /\ UNCHANGED <<context, prompt_context, frameworks, decision_binding, raised, escaped,
                   analysis_sufficiency>>
    /\ UNCHANGED vvars
    /\ UNCHANGED lvars

\* after the loop: build the AnalysisResult and compute its sufficiency summary
ComputeSufficiency ==
    /\ pc = "loop"
    /\ idx > Len(frameworks)
    /\ analysis_sufficiency' = compute_analysis_sufficiency(context, framework_results)
    /\ pc' = "done"
    /\ UNCHANGED <<context, prompt_context, frameworks, idx, decision_binding, result,
                   raised, escaped, framework_results, porter_result, systems_result,
                   porter_error, systems_error>>
    /\ UNCHANGED vvars
    /\ UNCHANGED lvars

Next == InferDecisionBinding \/ RunFramework \/ ValidateAndRecord \/ ComputeSufficiency

Spec == Init /\ [][Next]_vars

----------------------------------------------------------------------------
\* Response texts (LLMInferenceClient, core/llm.py).  A text is a sequence of
\* characters over a small alphabet:
\*   "{" "}"  braces          "q"  a double quote       "c"  a colon
\*   "1"      a digit         "x"  any other printable character
\*   "s"      a blank         "F"  a ``` fence, with or without the json tag
\* Without a comma in the alphabet a JSON object has at most one member; on
\* these texts json_loads is json.loads.

MaxSegs == 3

SetMin(S) == CHOOSE m \in S : \A n \in S : m <= n
SetMax(S) == CHOOSE m \in S : \A n \in S : m >= n

\* text.find(ch, i) with 1-based positions; 0 stands for -1
find(text, ch, i) ==
    LET hits == {j \in i..Len(text) : text[j] = ch}
    IN  IF hits = {} THEN 0 ELSE SetMin(hits)

\* str.strip()
strip(text) ==
    LET solid == {i \in 1..Len(text) : text[i] # "s"}
    IN  IF solid = {} THEN <<>> ELSE SubSeq(text, SetMin(solid), SetMax(solid))

\* first position at or after i that is not a blank (Len + 1 if there is none)
SkipBlanks(text, i) ==
    SetMin({j \in i..(Len(text) + 1) : j = Len(text) + 1 \/ text[j] # "s"})

ParseFail == [ok |-> FALSE, next |-> 0, canon |-> <<>>]
Parsed(next, canon) == [ok |-> TRUE, next |-> next, canon |-> canon]

\* a string literal starting at the quote at position i
ParseString(text, i) ==
    LET close == find(text, "q", i + 1)
    IN  IF close = 0 THEN ParseFail ELSE Parsed(close + 1, SubSeq(text, i, close))

\* a number starting at the digit at position i
ParseNumber(text, i) ==
    LET stop == SetMin({j \in i..(Len(text) + 1) : j = Len(text) + 1 \/ text[j] # "1"})
    IN  Parsed(stop, SubSeq(text, i, stop - 1))

\* json.loads, value by value.  ParseValue(text, i0) reads the JSON value that
\* starts at or after position i0; canon is the value read, written without
\* insignificant blanks.  The steps of reading an object come first.
RECURSIVE ParseValue(_, _)

\* l: position of the first non-blank after the member's value
ParseObjectEnd(text, key, v, l) ==
    IF l > Len(text) THEN ParseFail
    ELSE IF text[l] # "}" THEN ParseFail
    ELSE Parsed(l + 1, <<"{">> \o key.canon \o <<"c">> \o v.canon \o <<"}">>)

\* v: the member's value as parsed
ParseMemberValue(text, key, v) ==
    IF ~v.ok THEN ParseFail
    ELSE ParseObjectEnd(text, key, v, SkipBlanks(text, v.next))

\* k: position of the first non-blank after the key
ParseColon(text, key, k) ==
    IF k > Len(text) THEN ParseFail
    ELSE IF text[k] # "c" THEN ParseFail
    ELSE ParseMemberValue(text, key, ParseValue(text, k + 1))

\* key: the member's key as parsed
ParseMember(text, key) ==
    IF ~key.ok THEN ParseFail
    ELSE ParseColon(text, key, SkipBlanks(text, key.next))

\* j: position of the first non-blank after the opening brace
ParseObjectBody(text, j) ==
    IF j > Len(text) THEN ParseFail
    ELSE IF text[j] = "}" THEN Parsed(j + 1, <<"{", "}">>)
    ELSE IF text[j] # "q" THEN ParseFail
    ELSE ParseMember(text, ParseString(text, j))

\* i: position of the first character of the value
ParseValueAt(text, i) ==
    IF i > Len(text) THEN ParseFail
    ELSE IF text[i] = "q" THEN ParseString(text, i)
    ELSE IF text[i] = "1" THEN ParseNumber(text, i)
    ELSE IF text[i] = "{" THEN ParseObjectBody(text, SkipBlanks(text, i + 1))
    ELSE ParseFail

ParseValue(text, i0) == ParseValueAt(text, SkipBlanks(text, i0))

\* the whole text must be one value; ok = FALSE is JSONDecodeError
WholeValue(text, v) ==
    IF v.ok /\ SkipBlanks(text, v.next) > Len(text)
    THEN [ok |-> TRUE, value |-> v.canon]
    ELSE [ok |-> FALSE, value |-> <<>>]

json_loads(text) == WholeValue(text, ParseValue(text, 1))

IsMapping(value) == Len(value) > 0 /\ value[1] = "{"
\* Python truthiness of a parsed value: {} and "" are falsy
Truthy(value) == value \notin {<<"{", "}">>, <<"q", "q">>}

\* the Optional result of _extract_json_from_markdown (NoJson is None)
Json(value, via) == [found |-> TRUE, value |-> value, via |-> via]

\* the loop over re.findall of the fence pattern: fences pair up from the
\* left, each block is stripped and parsed, the first that parses is returned
RECURSIVE fenced_from(_, _)

\* block: json.loads of the stripped block that ends at the fence `close`
fenced_block(text, close, block) ==
    IF block.ok THEN Json(block.value, "fenced") ELSE fenced_from(text, close + 1)

fenced_close(text, open, close) ==
    IF close = 0 THEN NoJson
    ELSE fenced_block(text, close, json_loads(strip(SubSeq(text, open + 1, close - 1))))

fenced_open(text, open) ==
    IF open = 0 THEN NoJson ELSE fenced_close(text, open, find(text, "F", open + 1))

fenced_from(text, i) == fenced_open(text, find(text, "F", i))

\* brace depth of text[start..i]
Depth(text, start, i) ==
    Cardinality({j \in start..i : text[j] = "{"})
        - Cardinality({j \in start..i : text[j] = "}"})

\* the while loop of the brace scan: from `start`, the first position where
\* the depth is back at zero closes the candidate; a candidate that does not
\* parse, or a depth that never returns to zero, moves on to the next "{"
RECURSIVE scan_from(_, _)

\* candidate: json.loads of text[start..i] for the closing position i
scan_candidate(text, start, candidate) ==
    IF candidate.ok THEN Json(candidate.value, "braces")
    ELSE scan_from(text, find(text, "{", start + 1))

\* closing: the positions at or after start where the depth is zero
scan_closing(text, start, closing) ==
    IF closing = {} THEN scan_from(text, find(text, "{", start + 1))
    ELSE scan_candidate(text, start, json_loads(SubSeq(text, start, SetMin(closing))))

scan_from(text, start) ==
    IF start = 0 THEN NoJson
    ELSE scan_closing(text, start, {i \in start..Len(text) : Depth(text, start, i) = 0})

\* fenced: what the loop over the fenced blocks returned, if anything
fenced_or_scan(text, fenced) ==
    IF fenced.found THEN fenced ELSE scan_from(text, find(text, "{", 1))

_extract_json_from_markdown(text) == fenced_or_scan(text, fenced_from(text, 1))

----------------------------------------------------------------------------
\* One parse attempt (LLMInferenceClient.parse_response)

\* What the libraries that are not modelled make of a response:
\*   yaml    what yaml.safe_load returns for the cleaned text
\*   custom  what _yaml_to_dict returns for it
\*   binds   whether response_model(**data) accepts the mapping of a strategy
YamlResults == {"mapping", "scalar", "raises"}
CustomResults == {"mapping", "raises"}
Binds == [json : BOOLEAN, yaml : BOOLEAN, custom : BOOLEAN]
Libs == [yaml : YamlResults, custom : CustomResults, binds : Binds]

Error(stage, type, message) ==
    [stage |-> stage, type |-> type, message |-> message, at |-> 0]
Bound(strategy, value, consulted, produced) ==
    [ok |-> TRUE, bound_from |-> strategy, value |-> value, error |-> NoError,
     consulted |-> consulted, produced |-> produced]
Unbound(error, consulted, produced) ==
    [ok |-> FALSE, bound_from |-> None, value |-> <<>>, error |-> error,
     consulted |-> consulted, produced |-> produced]

\* `if json_data:` -- whether the JSON branch is taken
json_branch_taken(json_data) == json_data.found /\ Truthy(json_data.value)

\* the strategies that handed back a mapping, among those consulted
produced_by(json_data, lib, consulted) ==
    SelectSeq(consulted,
        LAMBDA st : \/ st = "json" /\ json_data.found /\ IsMapping(json_data.value)
                    \/ st = "yaml" /\ lib.yaml = "mapping"
                    \/ st = "custom" /\ lib.custom = "mapping")

\* the except clause around the PyYAML attempt: TRUE iff the attempt returns
yaml_returns(lib) == lib.yaml = "mapping" /\ lib.binds.yaml

\* json_data: what _extract_json_from_markdown returned for the text
parse_from(json_data, lib) ==
    IF json_branch_taken(json_data)
    THEN IF IsMapping(json_data.value) /\ lib.binds.json
         THEN Bound("json", json_data.value, <<"json">>,
                    produced_by(json_data, lib, <<"json">>))
         ELSE Unbound(Error("binding", "ValidationError", "validation error"),
                      <<"json">>, produced_by(json_data, lib, <<"json">>))
    ELSE IF yaml_returns(lib)
    THEN Bound("yaml", <<>>, <<"json", "yaml">>,
               produced_by(json_data, lib, <<"json", "yaml">>))
    ELSE IF lib.custom = "mapping" /\ lib.binds.custom
    THEN Bound("custom", <<>>, <<"json", "yaml", "custom">>,
               produced_by(json_data, lib, <<"json", "yaml", "custom">>))
    ELSE Unbound(Error(IF lib.custom = "mapping" THEN "binding" ELSE "extraction",
                       "LLMError", "Failed to parse response"),
                 <<"json", "yaml", "custom">>,
                 produced_by(json_data, lib, <<"json", "yaml", "custom">>))

parse_response(text, lib) == parse_from(_extract_json_from_markdown(text), lib)

\* Response texts are put together from up to MaxSegs pieces: single
\* characters, JSON objects (empty, one member, nested, one whose key holds
\* braces) and fenced blocks
Segments ==
    {<<"x">>, <<"s">>, <<"{">>, <<"}">>, <<"F">>,
     <<"{", "}">>,
     <<"{", "q", "x", "q", "c", "1", "}">>,
     <<"{", "q", "x", "q", "c", "{", "q", "x", "q", "c", "1", "}", "}">>,
     <<"{", "q", "}", "{", "q", "c", "1", "}">>,
     <<"F", "{", "}", "F">>,
     <<"F", "s", "{", "q", "x", "q", "c", "1", "}", "s", "F">>}

RECURSIVE Concat(_)
Concat(pieces) ==
    IF pieces = <<>> THEN <<>> ELSE Head(pieces) \o Concat(Tail(pieces))

RawTexts == {Concat(pieces) : pieces \in SeqsUpTo(Segments, MaxSegs)}

InitParse ==
    /\ parse_pc = "input"
    /\ raw_text \in RawTexts
    /\ extracted_json = NoJson
    /\ parsed = NoParse
    /\ IdleValidate
    /\ IdleRun
    /\ IdleExtra
    /\ IdleRetry
    /\ IdleNormalize

\* a direct call of the JSON extractor
CallExtractJson ==
    /\ parse_pc = "input"
    /\ extracted_json' = _extract_json_from_markdown(raw_text)
    /\ parse_pc' = "extracted"
    /\ UNCHANGED <<raw_text, parsed>>
    /\ UNCHANGED <<vvars, rvars, tvars, nvars, xvars>>

\* a call of parse_response
CallParseResponse ==
    /\ parse_pc = "input"
    /\ extracted_json' = _extract_json_from_markdown(raw_text)
    /\ \E lib \in Libs : parsed' = parse_response(raw_text, lib)
    /\ parse_pc' = "parsed"
    /\ UNCHANGED raw_text
    /\ UNCHANGED <<vvars, rvars, tvars, nvars, xvars>>

NextParse == CallExtractJson \/ CallParseResponse

SpecParse == InitParse /\ [][NextParse]_vars

----------------------------------------------------------------------------
\* The retry controller (LLMInferenceClient.run_analysis)

MaxRetriesBound == 2

\* exceptions call_api can end in
TransportErrors ==
    {Error("transport", "LLMError", "API request failed"),
     Error("transport", "LLMError", "Unexpected API response format"),
     Error("transport", "ValueError", "response body is not JSON")}

\* response texts the remote model may send
RetryTexts ==
    {<<"F", "{", "q", "x", "q", "c", "1", "}", "F">>,
     <<"x", "{", "q", "x", "q", "c", "1", "}", "x">>,
     <<"F", "{", "}", "F">>,
     <<"x", "s", "x">>}
Response(text, lib) == [received |-> TRUE, text |-> text, lib |-> lib]
Responses == {Response(t, l) : t \in RetryTexts, l \in Libs}

Returned(strategy, at) ==
    [status |-> "returned", bound_from |-> strategy, at |-> at, type |-> None,
     attempts |-> 0, last |-> NoError]
\* LLMError(f"Analysis failed after {max_retries + 1} attempts: {last_error}")
Raised(attempts, last) ==
    [status |-> "raised", bound_from |-> None, at |-> 0, type |-> "LLMError",
     attempts |-> attempts, last |-> last]

\* `if attempt < max_retries: continue`
may_retry_OneMore(a, m) == a <= m
may_retry(a, m) == a < m

\* `last_error = e`
record_error_KeepFirst(previous, e) == IF previous = NoError THEN e ELSE previous
record_error(previous, e) == e

\* the except clause of the loop body, for the exception e of this attempt
AttemptFailed(e) ==
    /\ last_error' = record_error(last_error, [e EXCEPT !.at = attempt + 1])
    /\ failed' = failed + 1
    /\ IF may_retry(attempt, max_retries)
       THEN /\ attempt' = attempt + 1
            /\ retry_pc' = "call"
            /\ retry_outcome' = retry_outcome
       ELSE /\ attempt' = attempt
            /\ retry_pc' = "raised"
            /\ retry_outcome' = Raised(max_retries + 1, last_error')

InitRetry ==
    /\ retry_pc = "call"
    /\ max_retries \in 0..MaxRetriesBound
    /\ attempt = 0
    /\ response_text = NoResponse
    /\ last_error = NoError
    /\ calls = 0
    /\ failed = 0
    /\ retry_outcome = NoOutcome
    /\ IdleValidate
    /\ IdleRun
    /\ IdleExtra
    /\ IdleParse
    /\ IdleNormalize

\* response_text = self.call_api(system_prompt, user_prompt)
CallApi ==
    /\ retry_pc = "call"
    /\ calls' = calls + 1
    /\ \/ \E e \in TransportErrors :
            /\ AttemptFailed(e)
            /\ response_text' = response_text
       \/ \E r \in Responses :
            /\ response_text' = r
            /\ retry_pc' = "parse"
            /\ UNCHANGED <<attempt, last_error, failed, retry_outcome>>
    /\ UNCHANGED max_retries
    /\ UNCHANGED <<vvars, rvars, pvars, nvars, xvars>>

\* typed: what parse_response returned or raised in this attempt
ReturnOrFail(typed) ==
    IF typed.ok
    THEN /\ retry_pc' = "returned"
         /\ retry_outcome' = Returned(typed.bound_from, attempt + 1)
         /\ UNCHANGED <<attempt, last_error, failed>>
    ELSE AttemptFailed(typed.error)

\* return self.parse_response(response_text, response_model)
ParseResponse ==
    /\ retry_pc = "parse"
    /\ ReturnOrFail(parse_response(response_text.text, response_text.lib))
    /\ UNCHANGED <<max_retries, response_text, calls>>
    /\ UNCHANGED <<vvars, rvars, pvars, nvars, xvars>>

NextRetry == CallApi \/ ParseResponse

SpecRetry == InitRetry /\ [][NextRetry]_vars

----------------------------------------------------------------------------
\* Properties of the Claim Validator and the Framework Sufficiency Evaluator
\* (checked under SpecValidate)

\* s is a subsequence of t: s is obtained from t by deleting elements
RECURSIVE IsSubsequence(_, _)
IsSubsequence(s, t) ==
    IF s = <<>> THEN TRUE
    ELSE IF t = <<>> THEN FALSE
    ELSE IF Head(s) = Head(t) THEN IsSubsequence(Tail(s), Tail(t))
    ELSE IsSubsequence(s, Tail(t))

HasType(t, c) == c.claim_type = t
InSeq(s, P(_)) == \E k \in 1..Len(s) : P(s[k])

\* the claim/option binding rule of the data model, per claim type
SatisfiesBindingRule(c) ==
    /\ c.claim_type = OPTION_SPECIFIC => Len(c.applicable_options) = 1
    /\ c.claim_type = COMPARATIVE => Len(c.applicable_options) >= 2
    /\ c.claim_type = SYSTEM_LEVEL => c.applicable_options = <<"all">>

\* C1: the list returned by validate_claims_option_binding is a subsequence
\* of the input list: same relative order, nothing inserted, duplicated or
\* relabelled, every returned claim being an input claim with its claim_type
\* and applicable_options as given.
C1_StrictFilter ==
    vpc = "bound" => /\ IsSubsequence(vvalid, vclaims)
                     /\ Len(vvalid) <= Len(vclaims)

C1_Witness ==
    /\ vpc = "bound"
    /\ Len(vclaims) = 2
    /\ Len(vvalid) = 1
    /\ vvalid[1] = vclaims[2]

\* C2: an option_specific claim is kept iff applicable_options has exactly one
\* entry: the option_specific claims returned are exactly the option_specific
\* claims of the input with one entry, in input order.
C2_OptionSpecificExactlyOne ==
    vpc = "bound" =>
        SelectSeq(vvalid, LAMBDA c : HasType(OPTION_SPECIFIC, c))
        = SelectSeq(vclaims, LAMBDA c : HasType(OPTION_SPECIFIC, c)
                                        /\ Len(c.applicable_options) = 1)

C2_Witness ==
    /\ vpc = "bound"
    /\ vclaims = <<AnalyticalClaim(OPTION_SPECIFIC, <<"A", "B">>),
                   AnalyticalClaim(OPTION_SPECIFIC, <<"A">>)>>
    /\ vvalid = <<AnalyticalClaim(OPTION_SPECIFIC, <<"A">>)>>

\* C3: a system_level claim is kept iff applicable_options is exactly the
\* one-element list ["all"].
C3_SystemLevelExactlyAll ==
    vpc = "bound" =>
        SelectSeq(vvalid, LAMBDA c : HasType(SYSTEM_LEVEL, c))
        = SelectSeq(vclaims, LAMBDA c : HasType(SYSTEM_LEVEL, c)
                                        /\ c.applicable_options = <<"all">>)

C3_Witness ==
    /\ vpc = "bound"
    /\ vclaims = <<AnalyticalClaim(SYSTEM_LEVEL, <<"all", "A">>),
                   AnalyticalClaim(SYSTEM_LEVEL, <<"all">>)>>
    /\ vvalid = <<AnalyticalClaim(SYSTEM_LEVEL, <<"all">>)>>

\* C4: a comparative claim is kept iff applicable_options has at least two
\* entries.
C4_ComparativeAtLeastTwo ==
    vpc = "bound" =>
        SelectSeq(vvalid, LAMBDA c : HasType(COMPARATIVE, c))
        = SelectSeq(vclaims, LAMBDA c : HasType(COMPARATIVE, c)
                                        /\ Len(c.applicable_options) >= 2)

C4_Witness ==
    /\ vpc = "bound"
    /\ vclaims = <<AnalyticalClaim(COMPARATIVE, <<"A">>),
                   AnalyticalClaim(COMPARATIVE, <<"A", "B">>)>>
    /\ vvalid = <<AnalyticalClaim(COMPARATIVE, <<"A", "B">>)>>

\* C5: a framework result with success = True of which no claim satisfies the
\* binding rule (or which has no claims) is returned as insufficient, with the
\* "no valid claims affecting the decision space" reason and no claims.
C5_NoSurvivorInsufficient ==
    (/\ vpc = "validated"
     /\ vfr_before.success
     /\ ~InSeq(vfr_before.claims, SatisfiesBindingRule))
    => /\ vret.execution_status = INSUFFICIENT
       /\ vret.execution_reason
            = "Framework produced no valid claims affecting the decision space"
       /\ vret.claims = <<>>
       /\ vret.success

C5_Witness ==
    /\ vpc = "validated"
    /\ vfr_before.success
    /\ Len(vfr_before.claims) = 2
    /\ vret.execution_status = INSUFFICIENT

\* C6: the returned result is successful only if a claim survives validation,
\* and then carries exactly the surviving claims in input order: successful
\* implies a non-empty claims list of claims that satisfy the binding rule.
C6_StrictDowngrade ==
    (vpc = "validated" /\ vret.execution_status = SUCCESSFUL)
    => /\ vfr_before.success
       /\ InSeq(vfr_before.claims, SatisfiesBindingRule)
       /\ vret.claims = SelectSeq(vfr_before.claims, SatisfiesBindingRule)
       /\ vret.claims # <<>>
       /\ \A k \in 1..Len(vret.claims) : SatisfiesBindingRule(vret.claims[k])

C6_Witness ==
    /\ vpc = "validated"
    /\ vret.execution_status = SUCCESSFUL
    /\ Len(vfr_before.claims) = 2
    /\ Len(vret.claims) = 1

----------------------------------------------------------------------------
\* Properties of a run of run_analysis_with_frameworks (checked under Spec)

\* C7: a framework execution whose call/parse/bind chain raised ends as a
\* failed framework result whose execution_reason is the message of the error
\* raised, with no claims; and every result with success = False is failed
\* and carries no claims.
C7_FailedCarriesError ==
    \A k \in 1..Len(framework_results) :
        LET fr == framework_results[k]
        IN  /\ raised[k] # None =>
                /\ ~fr.success
                /\ fr.execution_status = FAILED
                /\ fr.execution_reason = raised[k]
                /\ fr.claims = <<>>
            /\ ~fr.success =>
                /\ fr.execution_status = FAILED
                /\ fr.execution_reason # None
                /\ fr.claims = <<>>

C7_Witness ==
    /\ pc = "done"
    /\ Len(framework_results) = 2
    /\ raised[1] # None
    /\ raised[2] # None
    /\ raised[1] # raised[2]
    /\ framework_results[2].execution_status = FAILED

\* C8: without a DecisionFocus on the problem context the summary has
\* decision_binding = genuinely_ambiguous and overall_status =
\* exploratory_pre_decision, whatever the framework results are.
C8_NoFocusExploratory ==
    (pc = "done" /\ ~context.decision_focus.present)
    => /\ analysis_sufficiency.decision_binding = GENUINELY_AMBIGUOUS
       /\ analysis_sufficiency.overall_status = EXPLORATORY_PRE_DECISION

C8_Witness ==
    /\ pc = "done"
    /\ ~context.decision_focus.present
    /\ Len(framework_results) = 2
    /\ framework_results[1].execution_status = SUCCESSFUL
    /\ framework_results[2].execution_status = FAILED
    /\ analysis_sufficiency.framework_coverage = PARTIAL

\* every option of the decision focus is named by a claim of some framework result
FullyCovered ==
    \A o \in 1..Len(context.decision_focus.options) :
        \E k \in 1..Len(framework_results) :
            \E c \in 1..Len(framework_results[k].claims) :
                \E m \in 1..Len(framework_results[k].claims[c].applicable_options) :
                    framework_results[k].claims[c].applicable_options[m]
                        = context.decision_focus.options[o]

StatusesAre(s1, s2) ==
    /\ Len(framework_results) = 2
    /\ {framework_results[1].execution_status, framework_results[2].execution_status}
         = {s1, s2}

\* C9: with decision_binding = decision_context_present, overall_status is
\* decision_relevant_but_constrained if option_coverage or framework_coverage
\* is partial and decision_relevant_reasoning_produced otherwise; one failed
\* plus one successful framework with a fully covered focus gives constrained,
\* two successful frameworks fully covering a 2-option focus give
\* reasoning_produced.
C9_OverallWhenPresent ==
    (pc = "done" /\ analysis_sufficiency.decision_binding = DECISION_CONTEXT_PRESENT)
    => /\ analysis_sufficiency.overall_status =
            IF \/ analysis_sufficiency.option_coverage = PARTIAL
               \/ analysis_sufficiency.framework_coverage = PARTIAL
            THEN DECISION_RELEVANT_BUT_CONSTRAINED
            ELSE DECISION_RELEVANT_REASONING_PRODUCED
       /\ (/\ StatusesAre(FAILED, SUCCESSFUL)
           /\ Len(context.decision_focus.options) >= 1
           /\ FullyCovered)
          => /\ analysis_sufficiency.framework_coverage = PARTIAL
             /\ analysis_sufficiency.overall_status = DECISION_RELEVANT_BUT_CONSTRAINED
       /\ (/\ StatusesAre(SUCCESSFUL, SUCCESSFUL)
           /\ Len(context.decision_focus.options) = 2
           /\ FullyCovered)
          => analysis_sufficiency.overall_status = DECISION_RELEVANT_REASONING_PRODUCED

C9_Witness ==
    /\ pc = "done"
    /\ analysis_sufficiency.decision_binding = DECISION_CONTEXT_PRESENT
    /\ StatusesAre(FAILED, SUCCESSFUL)
    /\ context.decision_focus.options = <<"A", "B">>
    /\ FullyCovered
    /\ analysis_sufficiency.option_coverage = COMPLETE
    /\ analysis_sufficiency.overall_status = DECISION_RELEVANT_BUT_CONSTRAINED

\* C10: decision_binding = decision_context_present iff the problem context
\* carries a DecisionFocus with at least 2 options; with no DecisionFocus, or
\* one with 0 or 1 options, it is genuinely_ambiguous.
C10_PresentIffTwoOptions ==
    pc = "done" =>
        /\ analysis_sufficiency.decision_binding = DECISION_CONTEXT_PRESENT
             <=> (context.decision_focus.present
                  /\ Len(context.decision_focus.options) >= 2)
        /\ analysis_sufficiency.decision_binding
             \in {DECISION_CONTEXT_PRESENT, GENUINELY_AMBIGUOUS}

C12_FrameworkCoverage ==
    pc = "done" =>
        /\ analysis_sufficiency.framework_coverage = COMPLETE
             <=> \A k \in 1..Len(framework_results) :
                    framework_results[k].execution_status = SUCCESSFUL
        /\ analysis_sufficiency.framework_coverage \in {COMPLETE, PARTIAL}
        /\ framework_results = <<>> => analysis_sufficiency.framework_coverage = COMPLETE

C12_Witness ==
    /\ pc = "done"
    /\ StatusesAre(INSUFFICIENT, SUCCESSFUL)
    /\ analysis_sufficiency.framework_coverage = PARTIAL

----------------------------------------------------------------------------
\* The key normaliser (LLMInferenceClient._convert_keys_to_snake_case)

MaxKeyLen == 3

\* keys are strings over upper-case letters, a lower-case letter, a digit and
\* the underscore
KeyAlphabet == {"A", "B", "a", "1", "_"}
IsUpper(ch) == ch \in {"A", "B"}
IsLower(ch) == ch \in {"a", "b"}
IsDigit(ch) == ch = "1"
\* str.lower(), character by character
lower_Identity(key) == key
lower(key) ==
    [i \in 1..Len(key) |-> IF key[i] = "A" THEN "a" ELSE IF key[i] = "B" THEN "b" ELSE key[i]]

\* end of the run of lower-case letters that starts at position i
LowerRunEnd(key, i) ==
    SetMax({e \in i..Len(key) : \A j \in i..e : IsLower(key[j])})

\* re.sub("(.)([A-Z][a-z]+)", r"\1_\2", key), scanning from position i
RECURSIVE sub_word(_, _)
sub_word(key, i) ==
    IF i > Len(key) THEN <<>>
    ELSE IF i + 2 <= Len(key) /\ IsUpper(key[i + 1]) /\ IsLower(key[i + 2])
    THEN <<key[i], "_">> \o SubSeq(key, i + 1, LowerRunEnd(key, i + 2))
             \o sub_word(key, LowerRunEnd(key, i + 2) + 1)
    ELSE <<key[i]>> \o sub_word(key, i + 1)

\* re.sub("([a-z0-9])([A-Z])", r"\1_\2", s1), scanning from position i
RECURSIVE sub_hump(_, _)
sub_hump(s1, i) ==
    IF i > Len(s1) THEN <<>>
    ELSE IF i + 1 <= Len(s1) /\ (IsLower(s1[i]) \/ IsDigit(s1[i])) /\ IsUpper(s1[i + 1])
    THEN <<s1[i], "_", s1[i + 1]>> \o sub_hump(s1, i + 2)
    ELSE <<s1[i]>> \o sub_hump(s1, i + 1)

to_snake_case(key) == lower(sub_hump(sub_word(key, 1), 1))

\* d[k] = v on a dict: an existing key keeps its place and takes the new value
put(entries, k, v) ==
    IF \E i \in 1..Len(entries) : entries[i].key = k
    THEN [i \in 1..Len(entries) |->
             IF entries[i].key = k THEN Entry(k, v) ELSE entries[i]]
    ELSE Append(entries, Entry(k, v))

\* new_key = key
top_level_key_Snake(key) == to_snake_case(key)
top_level_key(key) == key

\* the loop over value.items() that fills converted_nested
RECURSIVE convert_nested(_, _)
convert_nested(entries, converted_nested) ==
    IF entries = <<>> THEN converted_nested
    ELSE convert_nested(Tail(entries),
             put(converted_nested, to_snake_case(Head(entries).key), Head(entries).value))

\* the returned object; data itself is only read
RECURSIVE convert_keys(_)
convert_entries(entries) ==
    LET step(res, e) ==
            IF e.value.kind = "dict"
            THEN put(res, top_level_key(e.key), Dict(convert_nested(e.value.entries, <<>>)))
            ELSE IF e.value.kind = "list"
            THEN put(res, top_level_key(e.key),
                     List([i \in 1..Len(e.value.items) |->
                              IF e.value.items[i].kind = "dict"
                              THEN convert_keys(e.value.items[i])
                              ELSE e.value.items[i]]))
            ELSE put(res, top_level_key(e.key), e.value)
        RECURSIVE loop(_, _)
        loop(rest, res) ==
            IF rest = <<>> THEN res ELSE loop(Tail(rest), step(res, Head(rest)))
    IN  loop(entries, <<>>)
convert_keys(data) ==
    IF data.kind # "dict" THEN data ELSE Dict(convert_entries(data.entries))

_convert_keys_to_snake_case(data) == [ret |-> convert_keys(data), arg |-> data]

Keys == UNION {[1..n -> KeyAlphabet] : n \in 1..MaxKeyLen}
PascalKey == <<"A", "a", "B", "a">>
\* a dict below the nested level, whose keys the normaliser does not reach
DeepDict == Dict(<<Entry(PascalKey, Scalar("deep"))>>)
\* second keys of two-entry nested dicts; "Aa" and "aa" collide as "aa"
PairKeys == {<<"A", "a">>, <<"a", "a">>, <<"a", "A">>}
NestedDicts ==
    {Dict(<<Entry(k, v)>>) : k \in Keys, v \in {Scalar("v"), DeepDict}}
    \cup {Dict(<<Entry(k1, Scalar("v")), Entry(k2, Scalar("w"))>>) :
             k1 \in Keys, k2 \in PairKeys}
Lists ==
    {List(<<Scalar("v")>>),
     List(<<Dict(<<Entry(PascalKey, DeepDict)>>), Scalar("v")>>)}
FirstValues == {Scalar("v")} \cup {d \in NestedDicts : TRUE} \cup Lists
SecondValues == {Scalar("w"), DeepDict} \cup Lists
NormalizerInputs ==
    {Dict(<<Entry(PascalKey, v)>>) : v \in FirstValues}
    \cup {Dict(<<Entry(PascalKey, v), Entry(<<"a">>, w)>>) :
             v \in FirstValues, w \in SecondValues}
    \cup {Scalar("v")} \cup Lists

InitNormalize ==
    /\ norm_pc = "input"
    /\ norm_data \in NormalizerInputs
    /\ norm_data_before = Scalar(None)
    /\ norm_result = Scalar(None)
    /\ norm_again = Scalar(None)
    /\ IdleValidate
    /\ IdleRun
    /\ IdleExtra
    /\ IdleRetry
    /\ IdleParse

CallConvertKeys ==
    /\ norm_pc = "input"
    /\ norm_data_before' = norm_data
    /\ norm_data' = _convert_keys_to_snake_case(norm_data).arg
    /\ norm_result' = _convert_keys_to_snake_case(norm_data).ret
    /\ norm_pc' = "converted"
    /\ UNCHANGED norm_again
    /\ UNCHANGED <<vvars, rvars, tvars, pvars, xvars>>

\* the object returned is passed to _convert_keys_to_snake_case once more
CallConvertKeysAgain ==
    /\ norm_pc = "converted"
    /\ norm_again' = _convert_keys_to_snake_case(norm_result).ret
    /\ norm_result' = _convert_keys_to_snake_case(norm_result).arg
    /\ norm_pc' = "reconverted"
    /\ UNCHANGED <<norm_data, norm_data_before>>
    /\ UNCHANGED <<vvars, rvars, tvars, pvars, xvars>>

NextNormalize == CallConvertKeys \/ CallConvertKeysAgain

SpecNormalize == InitNormalize /\ [][NextNormalize]_vars

----------------------------------------------------------------------------
\* Claims about the retry controller (SpecRetry)

\* C13: with max_retries >= 0, run_analysis makes at most max_retries + 1
\* attempts; it returns the result of the first attempt that succeeds (every
\* attempt before it failed) and makes no remote call after it; after two
\* failed attempts the run is over with max_retries = 1, while with
\* max_retries = 2 a third attempt is made and its success is the result.
C13_AtMostRetriesPlusOne ==
    retry_pc # "idle" =>
        /\ calls <= max_retries + 1
        /\ failed <= calls
        /\ retry_pc = "returned" =>
              /\ retry_outcome.status = "returned"
              /\ retry_outcome.at = calls
              /\ failed = calls - 1
        /\ (failed = 2 /\ max_retries = 1) => retry_pc = "raised"
        /\ (failed = 2 /\ max_retries = 2) =>
              /\ retry_pc \in {"call", "parse", "returned"}
              /\ retry_pc = "returned" => retry_outcome.at = 3

C13_Witness ==
    /\ retry_pc = "returned"
    /\ max_retries = 2
    /\ failed = 2
    /\ calls = 3
    /\ retry_outcome.at = 3

\* C14: when all max_retries + 1 attempts fail, at whatever stage, run_analysis
\* raises one LLMError that carries the attempt count max_retries + 1 and the
\* error of the last attempt, not that of an earlier one; and it raises only
\* then.
C14_LastErrorOnly ==
    retry_pc # "idle" =>
        /\ failed = max_retries + 1 <=> retry_pc = "raised"
        /\ retry_pc = "raised" =>
              /\ calls = max_retries + 1
              /\ retry_outcome.status = "raised"
              /\ retry_outcome.type = "LLMError"
              /\ retry_outcome.attempts = max_retries + 1
              /\ retry_outcome.last = last_error
              /\ retry_outcome.last.at = max_retries + 1
              /\ retry_outcome.last.stage \in {"transport", "extraction", "binding"}
        /\ retry_pc # "raised" => retry_outcome.status # "raised"

C14_Witness ==
    /\ retry_pc = "raised"
    /\ max_retries = 1
    /\ failed = 2
    /\ retry_outcome.last.stage = "binding"
    /\ retry_outcome.last.type = "ValidationError"
    /\ retry_outcome.last.at = 2

----------------------------------------------------------------------------
\* Claims about the pipeline as a whole (Spec)

\* C15: run_analysis_with_frameworks never lets an exception out, whatever
\* happens to a framework; when it has returned, framework_results holds one
\* FrameworkResult per requested name, in request order, next to a sufficiency
\* summary, and a framework that raised or is unknown is recorded as failed.
C15_NeverRaises ==
    pc # "idle" =>
        /\ pc # "raised"
        /\ escaped = None
        /\ pc = "done" =>
              /\ Len(framework_results) = Len(frameworks)
              /\ \A i \in 1..Len(frameworks) :
                    /\ framework_results[i].framework_name = frameworks[i]
                    /\ (raised[i] # None \/ frameworks[i] \notin RegisteredFrameworks)
                           => framework_results[i].execution_status = FAILED
              /\ analysis_sufficiency # NoSummary

----------------------------------------------------------------------------
\* Claims about what validation does to its argument (SpecValidate)

\* C16: validate_framework_sufficiency returns a new FrameworkResult and
\* leaves the one passed to it as it was -- same claims list, same
\* execution_status -- whether the outcome is failed, insufficient or
\* successful.
C16_InputNotMutated ==
    vpc = "validated" =>
        /\ ~vret_is_arg
        /\ vfr.claims = vfr_before.claims
        /\ vfr.execution_status = vfr_before.execution_status

----------------------------------------------------------------------------
\* Claims about response extraction (SpecParse)

StrategyOrder == <<"json", "yaml", "custom">>

\* the stripped contents of the fenced blocks of a text: fences pair up from
\* the left
FencePositions(text) == {i \in 1..Len(text) : text[i] = "F"}
FenceRank(text, i) == Cardinality({j \in FencePositions(text) : j <= i})
FencedBlocks(text) ==
    {strip(SubSeq(text, i + 1, j - 1)) : <<i, j>> \in
        {p \in FencePositions(text) \X FencePositions(text) :
            /\ p[1] < p[2]
            /\ FenceRank(text, p[2]) = FenceRank(text, p[1]) + 1
            /\ FenceRank(text, p[1]) % 2 = 1}}

\* C17: within one parse attempt the strategies are consulted in the fixed
\* order JSON (fenced blocks before the brace scan), YAML, custom parser; once
\* a strategy has produced a mapping no later strategy is consulted, and that
\* mapping is the one that is bound or that makes the attempt fail.
C17_FirstMappingWins ==
    parse_pc = "parsed" =>
        /\ parsed.consulted = SubSeq(StrategyOrder, 1, Len(parsed.consulted))
        /\ extracted_json.via = "braces" =>
              \A block \in FencedBlocks(raw_text) : ~json_loads(block).ok
        /\ parsed.produced # <<>> =>
              /\ parsed.produced = <<parsed.consulted[Len(parsed.consulted)]>>
              /\ parsed.ok => parsed.bound_from = parsed.produced[1]

\* a text with exactly one fenced block, whose stripped content is a
\* well-formed JSON object
SingleFencedObject(text) ==
    /\ Cardinality(FencePositions(text)) = 2
    /\ \A block \in FencedBlocks(text) :
          json_loads(block).ok /\ IsMapping(json_loads(block).value)
TheFencedObject(text) ==
    json_loads(CHOOSE block \in FencedBlocks(text) : TRUE).value

\* C18: for a text holding a single well-formed fenced JSON object, whatever
\* the prose around it and also when the object is empty, the extractor
\* returns that object's content, that content is the mapping handed to
\* binding, and no YAML strategy is used.
C18_FencedObjectIsBound ==
    (parse_pc \in {"extracted", "parsed"} /\ SingleFencedObject(raw_text)) =>
        /\ extracted_json = Json(TheFencedObject(raw_text), "fenced")
        /\ parse_pc = "parsed" =>
              /\ parsed.consulted = <<"json">>
              /\ parsed.ok => /\ parsed.bound_from = "json"
                              /\ parsed.value = TheFencedObject(raw_text)

\* every prefix of the text has at least as many "{" as "}", the whole text
\* as many
BalancedBraces(text) ==
    /\ \A i \in 1..Len(text) : Depth(text, 1, i) >= 0
    /\ Depth(text, 1, Len(text)) = 0

\* the well-formed JSON objects that occur as a substring of the text
EmbeddedObjects(text) ==
    {json_loads(SubSeq(text, i, j)).value : <<i, j>> \in
        {p \in (1..Len(text)) \X (1..Len(text)) :
            /\ p[1] < p[2]
            /\ text[p[1]] = "{"
            /\ text[p[2]] = "}"
            /\ json_loads(SubSeq(text, p[1], p[2])).ok}}

\* C19: for a text without fences, with balanced braces, in which a
\* well-formed JSON object is embedded, the brace scan returns an embedded
\* object; and whenever the scan returns none, no candidate substring parses.
C19_BraceScanRecovers ==
    (parse_pc = "extracted" /\ FencePositions(raw_text) = {}) =>
        /\ (BalancedBraces(raw_text) /\ EmbeddedObjects(raw_text) # {}) =>
              /\ extracted_json.found
              /\ extracted_json.via = "braces"
              /\ extracted_json.value \in EmbeddedObjects(raw_text)

----------------------------------------------------------------------------
\* Claims about the key normaliser (SpecNormalize)

\* a PascalCase or camelCase key: every capital after the first character
\* starts a word, that is, it is followed by a lower-case letter or preceded
\* by a lower-case letter or digit
PascalOrCamel(key) ==
    \A i \in 2..Len(key) :
        IsUpper(key[i]) =>
            \/ i < Len(key) /\ IsLower(key[i + 1])
            \/ IsLower(key[i - 1]) \/ IsDigit(key[i - 1])

\* snake_case of such a key: an underscore in front of every capital after
\* the first character, then everything in lower case
RECURSIVE underscored(_, _)
underscored(key, i) ==
    IF i > Len(key) THEN <<>>
    ELSE (IF i > 1 /\ IsUpper(key[i]) THEN <<"_", key[i]>> ELSE <<key[i]>>)
             \o underscored(key, i + 1)
SnakeCase(key) == lower(underscored(key, 1))

KeysOf(entries) == [i \in 1..Len(entries) |-> entries[i].key]
EntrySet(entries) == {entries[i] : i \in 1..Len(entries)}

\* C20: for a dict, the result has the input's top-level keys, verbatim and in
\* order, with the same value wherever the value is neither a dict nor a list;
\* where the value is a dict, each of its keys appears in snake_case (the
\* snake_case form of a PascalCase or camelCase key, and free of capitals in
\* any case) and every value under a rewritten key is a value of the input
\* dict, as it was; the dict passed in is not modified.
C20_TopKeysKeptNestedSnake ==
    (norm_pc = "converted" /\ norm_data_before.kind = "dict") =>
        LET before == norm_data_before.entries
            after == norm_result.entries
        IN  /\ norm_result.kind = "dict"
            /\ KeysOf(after) = KeysOf(before)
            /\ \A i \in 1..Len(before) :
                  /\ before[i].value.kind = "scalar" => after[i].value = before[i].value
                  /\ before[i].value.kind = "dict" =>
                        /\ after[i].value.kind = "dict"
                        /\ \A e \in EntrySet(before[i].value.entries) :
                              /\ \E r \in EntrySet(after[i].value.entries) :
                                    r.key = to_snake_case(e.key)
                              /\ PascalOrCamel(e.key) =>
                                    to_snake_case(e.key) = SnakeCase(e.key)
                        /\ \A r \in EntrySet(after[i].value.entries) :
                              /\ \A j \in 1..Len(r.key) : ~IsUpper(r.key[j])
                              /\ \E e \in EntrySet(before[i].value.entries) :
                                    r.key = to_snake_case(e.key) /\ r.value = e.value
            /\ norm_data = norm_data_before

C20_Witness ==
    /\ norm_pc = "converted"
    /\ norm_data_before = Dict(<<Entry(PascalKey, Dict(<<Entry(<<"A", "a", "B">>, DeepDict)>>)),
                                 Entry(<<"a">>, Scalar("w"))>>)
    /\ norm_result = Dict(<<Entry(PascalKey, Dict(<<Entry(<<"a", "a", "_", "b">>, DeepDict)>>)),
                            Entry(<<"a">>, Scalar("w"))>>)
    /\ norm_data = norm_data_before

\* C21: normalising is idempotent: passing the object returned by
\* _convert_keys_to_snake_case to it once more returns an equal object, for
\* every input (scalars, lists, dicts with nested dicts whose keys collide
\* after conversion, dicts with lists of dicts), and that second call leaves
\* its argument as it was.
C21_Idempotent ==
    norm_pc = "reconverted" =>
        /\ norm_again = norm_result
        /\ norm_result = _convert_keys_to_snake_case(norm_data_before).ret

\* a dict whose nested keys "Aa" and "aa" collide, next to a list of dicts:
\* the first call rewrote it, the second call changed nothing
C21_Witness ==
    /\ norm_pc = "reconverted"
    /\ norm_data_before =
           Dict(<<Entry(PascalKey, Dict(<<Entry(<<"A", "a">>, Scalar("v")),
                                          Entry(<<"a", "a">>, Scalar("w"))>>)),
                  Entry(<<"a">>, List(<<Dict(<<Entry(PascalKey, DeepDict)>>), Scalar("v")>>))>>)
    /\ norm_result =
           Dict(<<Entry(PascalKey, Dict(<<Entry(<<"a", "a">>, Scalar("w"))>>)),
                  Entry(<<"a">>, List(<<Dict(<<Entry(PascalKey,
                      Dict(<<Entry(<<"a", "a", "_", "b", "a">>, Scalar("deep"))>>))>>),
                      Scalar("v")>>))>>)
    /\ norm_again = norm_result

----------------------------------------------------------------------------
\* The V2 orchestrator (V2AnalysisOrchestrator, v2/orchestrator.py)

V2RegisteredFrameworks == <<"porter_five_forces_v2", "systems_dynamics_v2">>
V2FrameworkNames == {"porter_five_forces_v2", "systems_dynamics_v2", "swot"}

\* v2 AnalyticalClaim: affected_options is a required List[str] of any content
V2Claim(affected) == [affected_options |-> affected]
V2ClaimUniverse ==
    {V2Claim(<<"A">>), V2Claim(<<"A", "B">>), V2Claim(<<>>), V2Claim(<<"all">>),
     V2Claim(<<"Z">>)}

\* v2 FrameworkResult with the defaults of its declaration
V2FrameworkResult(name, success, status, reason, res, claims) ==
    [framework_name |-> name, success |-> success, execution_status |-> status,
     execution_reason |-> reason, result |-> res, claims |-> claims]

\* validate_decision_context: (is_valid, error_message)
validate_decision_context_OneOption(decision, option_names) ==
    IF decision.decision_question = ""
    THEN [is_valid |-> FALSE, error |-> "Decision question is required in V2"]
    ELSE IF Len(option_names) < 1
    THEN [is_valid |-> FALSE, error |-> "V2 requires at least 2 options to analyze"]
    ELSE [is_valid |-> TRUE, error |-> None]

validate_decision_context(decision, option_names) ==
    IF decision.decision_question = ""
    THEN [is_valid |-> FALSE, error |-> "Decision question is required in V2"]
    ELSE IF Len(option_names) = 0 \/ Len(option_names) < 2
    THEN [is_valid |-> FALSE, error |-> "V2 requires at least 2 options to analyze"]
    ELSE [is_valid |-> TRUE, error |-> None]

\* validate_claim_option_awareness: defined on the orchestrator, called nowhere
validate_claim_option_awareness(claim, valid_options) ==
    IF claim.affected_options = <<>> THEN FALSE
    ELSE IF Len(claim.affected_options) = 1 /\ claim.affected_options[1] = "all" THEN FALSE
    ELSE \A k \in 1..Len(claim.affected_options) :
             \E o \in 1..Len(valid_options) : valid_options[o] = claim.affected_options[k]

\* outcome of self.llm.run_analysis inside the try block: a typed result
\* carrying option_aware_claims, or any exception
V2Errors == {"V2 analysis failed: API request failed", "[Errno 2] No such file or directory"}
V2Outcomes ==
    {[ok |-> TRUE, claims |-> cl, error |-> None] :
        cl \in SeqsUpTo(V2ClaimUniverse, MaxRunClaims)}
    \cup {[ok |-> FALSE, claims |-> <<>>, error |-> e] : e \in V2Errors}

\* whether run_framework reaches the call of self.llm.run_analysis
v2_calls_llm(framework_name) ==
    \E k \in 1..Len(V2RegisteredFrameworks) : V2RegisteredFrameworks[k] = framework_name

v2_run_framework(framework_name, outcome) ==
    IF ~v2_calls_llm(framework_name)
    THEN V2FrameworkResult(framework_name, FALSE, FAILED,
                           "Unknown framework: swot", None, <<>>)
    ELSE IF outcome.ok
    THEN V2FrameworkResult(framework_name, TRUE, SUCCESSFUL, None,
                           "typed", outcome.claims)
    ELSE V2FrameworkResult(framework_name, FALSE, FAILED, outcome.error, None, <<>>)

\* AnalysisResult: tension_map, sensitivity_triggers and the artefacts are
\* derived from framework_results, which they leave as it is
V2AnalysisResult(option_names, fw_results) ==
    [returned |-> TRUE, options_analyzed |-> option_names, framework_results |-> fw_results]

V2OptionLists == {<<>>, <<"A">>, <<"A", "B">>, <<"A", "B", "C">>}
V2Questions == {"", "q"}
V2Requested ==
    {Requested(names) : names \in SeqsUpTo(V2FrameworkNames, MaxFrameworks)}
    \cup {NoFrameworks}

InitV2 ==
    /\ v2_pc = "start"
    /\ v2_decision \in {Decision(q) : q \in V2Questions}
    /\ v2_options \in V2OptionLists
    /\ v2_requested \in V2Requested
    /\ v2_frameworks = <<>>
    /\ v2_framework_results = <<>>
    /\ v2_llm_calls = 0
    /\ v2_raised = None
    /\ v2_analysis = NoAnalysis
    /\ IdleValidate
    /\ IdleRun
    /\ IdleRetry
    /\ IdleParse
    /\ IdleNormalize
    /\ IdleExtract
    /\ IdleYaml

\* run_full_analysis up to the loop: validate, then default the frameworks
ValidateDecisionContext ==
    /\ v2_pc = "start"
    /\ LET checked == validate_decision_context(v2_decision, v2_options)
       IN  IF ~checked.is_valid
           THEN /\ v2_raised' = "Invalid decision context: " \o checked.error
                /\ v2_pc' = "raised"
                /\ UNCHANGED v2_frameworks
           ELSE /\ v2_frameworks' =
                       IF ~v2_requested.given THEN V2RegisteredFrameworks
                       ELSE v2_requested.names
                /\ v2_pc' = "loop"
                /\ UNCHANGED v2_raised
    /\ UNCHANGED <<v2_decision, v2_options, v2_requested, v2_framework_results,
                   v2_llm_calls, v2_analysis>>
    /\ UNCHANGED <<vvars, rvars, tvars, pvars, nvars, evars, yvars>>

\* loop body: result = self.run_framework(...); framework_results.append(result)
V2RunFramework ==
    /\ v2_pc = "loop"
    /\ Len(v2_framework_results) < Len(v2_frameworks)
    /\ LET framework_name == v2_frameworks[Len(v2_framework_results) + 1]
       IN  /\ \E outcome \in V2Outcomes :
                v2_framework_results' =
                    Append(v2_framework_results, v2_run_framework(framework_name, outcome))
           /\ v2_llm_calls' = IF v2_calls_llm(framework_name)
                              THEN v2_llm_calls + 1 ELSE v2_llm_calls
    /\ UNCHANGED <<v2_pc, v2_decision, v2_options, v2_requested, v2_frameworks,
                   v2_raised, v2_analysis>>
    /\ UNCHANGED <<vvars, rvars, tvars, pvars, nvars, evars, yvars>>

\* after the loop: return AnalysisResult(...)
V2ReturnAnalysis ==
    /\ v2_pc = "loop"
    /\ Len(v2_framework_results) = Len(v2_frameworks)
    /\ v2_analysis' = V2AnalysisResult(v2_options, v2_framework_results)
    /\ v2_pc' = "returned"
    /\ UNCHANGED <<v2_decision, v2_options, v2_requested, v2_frameworks,
                   v2_framework_results, v2_llm_calls, v2_raised>>
    /\ UNCHANGED <<vvars, rvars, tvars, pvars, nvars, evars, yvars>>

NextV2 == ValidateDecisionContext \/ V2RunFramework \/ V2ReturnAnalysis

SpecV2 == InitV2 /\ [][NextV2]_vars

----------------------------------------------------------------------------
\* Claims about the V2 orchestrator (SpecV2)

V2Strict == v2_decision.decision_question # "" /\ Len(v2_options) >= 2

\* C22: with an empty decision question or fewer than 2 options
\* run_full_analysis raises ValueError("Invalid decision context: ...") with no
\* call of the LLM layer made and no FrameworkResult produced, and never enters
\* the loop; otherwise it does not raise, and when it returns there is one
\* FrameworkResult per requested framework (all registered ones when none is
\* requested), in order, each registered one having been handed to the LLM
\* layer once.
C22_V2Strictness ==
    /\ v2_pc \in {"loop", "returned"} => V2Strict
    /\ v2_pc = "raised" =>
          /\ ~V2Strict
          /\ v2_raised \in {"Invalid decision context: Decision question is required in V2",
                            "Invalid decision context: V2 requires at least 2 options to analyze"}
          /\ v2_framework_results = <<>>
          /\ v2_llm_calls = 0
          /\ v2_analysis = NoAnalysis
    /\ v2_pc # "raised" => v2_raised = None
    /\ v2_pc = "returned" =>
          LET wanted == IF ~v2_requested.given THEN V2RegisteredFrameworks
                        ELSE v2_requested.names
              fw_results == v2_analysis.framework_results
          IN  /\ Len(fw_results) = Len(wanted)
              /\ \A k \in 1..Len(wanted) : fw_results[k].framework_name = wanted[k]
              /\ v2_llm_calls = Cardinality({k \in 1..Len(wanted) : v2_calls_llm(wanted[k])})

\* a question with a single option is rejected before anything ran
C22_Witness ==
    /\ v2_pc = "raised"
    /\ v2_decision.decision_question = "q"
    /\ v2_options = <<"A">>
    /\ v2_requested = Requested(<<"porter_five_forces_v2">>)
    /\ v2_raised = "Invalid decision context: V2 requires at least 2 options to analyze"
    /\ v2_llm_calls = 0

\* C23: every claim of every FrameworkResult of the AnalysisResult returned by
\* run_full_analysis satisfies validate_claim_option_awareness for the names of
\* the options analysed.
C23_ClaimsOptionAware ==
    v2_pc = "returned" =>
        \A k \in 1..Len(v2_analysis.framework_results) :
            \A c \in 1..Len(v2_analysis.framework_results[k].claims) :
                validate_claim_option_awareness(
                    v2_analysis.framework_results[k].claims[c],
                    v2_analysis.options_analyzed)

----------------------------------------------------------------------------
\* Alternatives extraction (DecisionFocusExtractor._extract_alternatives).
\* A matched group, after the cleaning the code applies to it, is one of
\*   "A" "B"  a phrase of more than 5 characters
\*   "a"      "A" in another letter case or with other punctuation
\*   "m"      a phrase of 4 or 5 characters
\*   "s"      a phrase of at most 3 characters
\*   "r"      a phrase of more than 5 characters holding a role phrase ("you are")

\* longest list of matches one pattern yields
MaxMatches == 2

Phrases == {"A", "B", "a", "m", "s", "r"}
\* len(alt) > 3, len(option_text) > 5
longer_than_3(phrase) == phrase # "s"
longer_than_5(phrase) == phrase \notin {"s", "m"}
\* any(phrase in option_text.lower() for phrase in [...])
role_phrase(phrase) == phrase = "r"
\* re.sub(r"[.,;:!?]", "", alt.lower()).strip()
alt_normalized(phrase) == IF phrase = "a" THEN "A" ELSE phrase

Occurs(alternatives, phrase) ==
    \E k \in 1..Len(alternatives) : alternatives[k] = phrase
\* if alt not in alternatives: alternatives.append(alt)
append_new(alternatives, phrase) ==
    IF Occurs(alternatives, phrase) THEN alternatives ELSE Append(alternatives, phrase)

\* both sides of a "vs" or an "or" match
append_pair(alternatives, pair) ==
    IF longer_than_3(pair[1]) /\ longer_than_3(pair[2])
    THEN append_new(append_new(alternatives, pair[1]), pair[2])
    ELSE alternatives

RECURSIVE or_matches(_, _)
or_matches(alternatives, pairs) ==
    IF pairs = <<>> THEN alternatives
    ELSE or_matches(append_pair(alternatives, Head(pairs)), Tail(pairs))

\* Method 2: the numbered list
RECURSIVE numbered_options(_, _)
numbered_options(alternatives, matches) ==
    IF matches = <<>> THEN alternatives
    ELSE IF role_phrase(Head(matches)) THEN numbered_options(alternatives, Tail(matches))
    ELSE IF longer_than_5(Head(matches))
    THEN numbered_options(append_new(alternatives, Head(matches)), Tail(matches))
    ELSE numbered_options(alternatives, Tail(matches))

\* Method 3: the objectives that name an alternative, option, approach or strategy
RECURSIVE objective_alternatives(_, _)
objective_alternatives(alternatives, objectives) ==
    IF objectives = <<>> THEN alternatives
    ELSE IF longer_than_5(Head(objectives))
    THEN objective_alternatives(append_new(alternatives, Head(objectives)), Tail(objectives))
    ELSE objective_alternatives(alternatives, Tail(objectives))

\* Method 4: "choose between A, B and C"
RECURSIVE between_parts(_, _)
between_parts(alternatives, parts) ==
    IF parts = <<>> THEN alternatives
    ELSE IF longer_than_5(Head(parts)) /\ ~role_phrase(Head(parts))
    THEN between_parts(append_new(alternatives, Head(parts)), Tail(parts))
    ELSE between_parts(alternatives, Tail(parts))

\* the closing loop: case-insensitive deduplication, then the first five
RECURSIVE unique_alternatives(_, _, _)
unique_alternatives(alternatives, seen, unique) ==
    IF alternatives = <<>> THEN unique
    ELSE IF alt_normalized(Head(alternatives)) \in seen
    THEN unique_alternatives(Tail(alternatives), seen, unique)
    ELSE IF longer_than_3(Head(alternatives))
    THEN unique_alternatives(Tail(alternatives),
             seen \cup {alt_normalized(Head(alternatives))},
             Append(unique, Head(alternatives)))
    ELSE unique_alternatives(Tail(alternatives), seen, unique)

first_five(alternatives) ==
    SubSeq(alternatives, 1, IF Len(alternatives) < 5 THEN Len(alternatives) ELSE 5)

after_numbered(material, alternatives) ==
    IF Len(alternatives) >= 2 THEN alternatives
    ELSE IF material.between.matched
    THEN between_parts(alternatives, material.between.parts)
    ELSE first_five(unique_alternatives(alternatives, {}, <<>>))

after_or(material, alternatives) ==
    IF Len(alternatives) >= 2 THEN alternatives
    ELSE after_numbered(material,
             objective_alternatives(numbered_options(alternatives, material.numbered),
                                    material.objectives))

_extract_alternatives(material) ==
    IF material.vs # <<>> THEN append_pair(<<>>, material.vs)
    ELSE after_or(material, or_matches(<<>>, material.ors))

\* the text as the gate sees it
text_of(material) ==
    Text(material.choice_implied, _extract_alternatives(material), material.has_owner)

\* DecisionFocusExtractor.extract on a context with this explicit focus and
\* this material: the gate gives up on a text of fewer than 50 characters
\* before it applies its three criteria
extract_focus(focus, material) ==
    IF ~focus.present /\ ~material.long_enough THEN NoDecisionFocus
    ELSE extract(ProblemContext(focus, text_of(material)))

\* whether extract reaches the call of _extract_alternatives
alternatives_extracted(focus, material) ==
    ~focus.present /\ material.long_enough /\ material.choice_implied

Pairs == {<<p, q>> : p, q \in {"A", "B", "a", "s"}}
Between(parts) == [matched |-> TRUE, parts |-> parts]
\* what the patterns find: a "vs" match ends the search; without one the
\* "or" matches, the numbered list, the objectives and the "between"
\* enumeration are consulted in turn
Findings ==
    {[vs |-> v, ors |-> <<>>, numbered |-> <<>>, objectives |-> <<>>, between |-> NoMatch] :
        v \in Pairs}
    \cup {[vs |-> <<>>, ors |-> o, numbered |-> n, objectives |-> <<>>, between |-> NoMatch] :
             o \in SeqsUpTo(Pairs, MaxMatches), n \in {<<>>, <<"B">>}}
    \cup {[vs |-> <<>>, ors |-> o, numbered |-> n, objectives |-> j, between |-> b] :
             o \in {<<>>, <<<<"A", "A">>>>},
             n \in SeqsUpTo(Phrases, MaxMatches),
             j \in {<<>>, <<"A">>, <<"m">>},
             b \in {NoMatch, Between(<<"A", "B", "r">>), Between(<<"a", "s", "A">>),
                    Between(<<"A", "A">>)}}
Materials ==
    {Material(long, choice, owner, f.vs, f.ors, f.numbered, f.objectives, f.between) :
        long \in BOOLEAN, choice \in BOOLEAN, owner \in BOOLEAN, f \in Findings}

InitExtract ==
    /\ ex_pc = "input"
    /\ ex_focus \in {NoDecisionFocus, DecisionFocus(<<"A">>), DecisionFocus(<<"A", "B">>)}
    /\ ex_material \in Materials
    /\ ex_alternatives = <<>>
    /\ ex_result = NoDecisionFocus
    /\ IdleValidate
    /\ IdleRun
    /\ IdleRetry
    /\ IdleParse
    /\ IdleNormalize
    /\ IdleV2
    /\ IdleYaml

CallExtract ==
    /\ ex_pc = "input"
    /\ ex_result' = extract_focus(ex_focus, ex_material)
    /\ ex_alternatives' = IF alternatives_extracted(ex_focus, ex_material)
                          THEN _extract_alternatives(ex_material) ELSE <<>>
    /\ ex_pc' = "extracted"
    /\ UNCHANGED <<ex_focus, ex_material>>
    /\ UNCHANGED <<vvars, rvars, tvars, pvars, nvars, ovars, yvars>>

NextExtract == CallExtract

SpecExtract == InitExtract /\ [][NextExtract]_vars

----------------------------------------------------------------------------
\* Claims about decision focus inference (SpecExtract)

Distinct(alternatives) == {alternatives[k] : k \in 1..Len(alternatives)}

MaxPieces == 4

\* one element of yaml_text.split("\n"), by what the parsers read of it:
\* its leading spaces, and its stripped text as "key: value", "- item",
\* "- key: value", words without colon or dash, "# words", or nothing
Line(kind, indent, key, value) ==
    [kind |-> kind, indent |-> indent, key |-> key, value |-> value]
Blank == Line("blank", 0, "", "")
Pair(indent, key, value) == Line("pair", indent, key, value)
Item(indent, item) == Line("item", indent, "", item)
ItemPair(indent, key, value) == Line("item_pair", indent, key, value)
Prose(indent) == Line("prose", indent, "", "")
Comment(indent) == Line("comment", indent, "", "")

\* not stripped
stripped_empty(line) == line.kind = "blank"
\* stripped.startswith("#")
starts_hash(line) == line.kind = "comment"
\* ":" in stripped
has_colon(line) == line.kind \in {"pair", "item_pair"}
\* stripped.startswith("-")
starts_dash(line) == line.kind \in {"item", "item_pair"}
\* stripped.split(":", 1)[0].strip()
split_key(line) == IF line.kind = "item_pair" THEN "- " \o line.key ELSE line.key
\* stripped.split(":", 1)[1].strip()
split_value(line) == line.value
\* list_stripped[1:].strip()
item_of(line) ==
    IF line.kind = "item_pair"
    THEN IF line.value = "" THEN line.key \o ":"
         ELSE line.key \o ": " \o line.value
    ELSE line.value

\* what a parser hands back: the dict it returns, or the exception it raises
DictReturned(entries) == [raised |-> None, value |-> Dict(entries)]
ErrorRaised(error) == [raised |-> error, value |-> Dict(<<>>)]

\* the innermost loop, from k: the items appended to result[key][nested_key]
\* (the same text in both parsers)
RECURSIVE list_items(_, _, _, _)
list_items(lines, k, next_indent, items) ==
    IF k > Len(lines) THEN items
    ELSE IF stripped_empty(lines[k])
    THEN list_items(lines, k + 1, next_indent, items)
    ELSE IF lines[k].indent <= next_indent /\ ~starts_dash(lines[k])
    THEN items
    ELSE IF starts_dash(lines[k]) /\ item_of(lines[k]) # ""
    THEN list_items(lines, k + 1, next_indent, Append(items, item_of(lines[k])))
    ELSE list_items(lines, k + 1, next_indent, items)

\* the look-ahead loop of LLMInferenceClient, from j: where it stops and
\* what result[key] holds by then
RECURSIVE core_section(_, _, _, _)
core_section(lines, j, indent, section) ==
    IF j > Len(lines) THEN [j |-> j, section |-> section]
    ELSE IF stripped_empty(lines[j])
    THEN core_section(lines, j + 1, indent, section)
    ELSE IF lines[j].indent <= indent
    THEN [j |-> j, section |-> section]
    ELSE IF has_colon(lines[j])
    THEN IF split_value(lines[j]) # ""
         THEN core_section(lines, j + 1, indent,
                  put(section, split_key(lines[j]), Scalar(split_value(lines[j]))))
         ELSE core_section(lines, j + 1, indent,
                  put(section, split_key(lines[j]),
                      List(list_items(lines, j + 1, lines[j].indent, <<>>))))
    ELSE core_section(lines, j + 1, indent, section)

\* result[current_section][key] = value
put_nested(yaml_result, current_section, key, value) ==
    [n \in 1..Len(yaml_result) |->
        IF yaml_result[n].key = current_section
        THEN Entry(current_section, Dict(put(yaml_result[n].value.entries, key, value)))
        ELSE yaml_result[n]]

\* the outer loop of LLMInferenceClient._yaml_to_dict, from i
RECURSIVE core_lines(_, _, _, _)
core_lines(lines, i, yaml_result, current_section) ==
    IF i > Len(lines) THEN DictReturned(yaml_result)
    ELSE IF stripped_empty(lines[i]) \/ starts_hash(lines[i])
    THEN core_lines(lines, i + 1, yaml_result, current_section)
    ELSE IF ~has_colon(lines[i])
    THEN core_lines(lines, i + 1, yaml_result, current_section)
    ELSE IF lines[i].indent = 0
    THEN IF split_value(lines[i]) # ""
         THEN core_lines(lines, i + 1,
                  put(yaml_result, split_key(lines[i]), Scalar(split_value(lines[i]))),
                  None)
         ELSE core_lines(lines, core_section(lines, i + 1, 0, <<>>).j,
                  put(yaml_result, split_key(lines[i]),
                      Dict(core_section(lines, i + 1, 0, <<>>).section)),
                  split_key(lines[i]))
    ELSE IF current_section # None /\ split_value(lines[i]) # ""
    THEN core_lines(lines, i + 1,
             put_nested(yaml_result, current_section, split_key(lines[i]),
                        Scalar(split_value(lines[i]))),
             current_section)
    ELSE core_lines(lines, i + 1, yaml_result, current_section)

\* LLMInferenceClient._yaml_to_dict(yaml_text)
core_yaml_to_dict(lines) == core_lines(lines, 1, <<>>, None)

\* the look-ahead loop of LLMInferenceLayer, from j: result[key] is a dict
\* until a "-" line is met at this level, which rebinds it to a list; a
\* str subscript on that list raises TypeError
RECURSIVE layer_section(_, _, _, _)
layer_section(lines, j, indent, section) ==
    IF j > Len(lines) THEN [j |-> j, section |-> section, raised |-> None]
    ELSE IF stripped_empty(lines[j])
    THEN layer_section(lines, j + 1, indent, section)
    ELSE IF lines[j].indent <= indent
    THEN [j |-> j, section |-> section, raised |-> None]
    ELSE IF has_colon(lines[j])
    THEN IF section.kind = "list"
         THEN [j |-> j, section |-> section, raised |-> "TypeError"]
         ELSE IF split_value(lines[j]) # ""
         THEN layer_section(lines, j + 1, indent,
                  Dict(put(section.entries, split_key(lines[j]),
                           Scalar(split_value(lines[j])))))
         ELSE layer_section(lines, j + 1, indent,
                  Dict(put(section.entries, split_key(lines[j]),
                           List(list_items(lines, j + 1, lines[j].indent, <<>>)))))
    ELSE IF starts_dash(lines[j])
    THEN layer_section(lines, j + 1, indent,
             List((IF section.kind = "list" THEN section.items ELSE <<>>)
                  \o (IF item_of(lines[j]) # "" THEN <<item_of(lines[j])>> ELSE <<>>)))
    ELSE layer_section(lines, j + 1, indent, section)

\* result[current_section] of the running result
section_of(yaml_result, current_section) ==
    (CHOOSE entry \in EntrySet(yaml_result) : entry.key = current_section).value

\* the outer loop of LLMInferenceLayer._yaml_to_dict, from i
RECURSIVE layer_lines(_, _, _, _)
layer_lines(lines, i, yaml_result, current_section) ==
    IF i > Len(lines) THEN DictReturned(yaml_result)
    ELSE IF stripped_empty(lines[i]) \/ starts_hash(lines[i])
    THEN layer_lines(lines, i + 1, yaml_result, current_section)
    ELSE IF ~has_colon(lines[i])
    THEN layer_lines(lines, i + 1, yaml_result, current_section)
    ELSE IF lines[i].indent = 0
    THEN IF split_value(lines[i]) # ""
         THEN layer_lines(lines, i + 1,
                  put(yaml_result, split_key(lines[i]), Scalar(split_value(lines[i]))),
                  None)
         ELSE IF layer_section(lines, i + 1, 0, Dict(<<>>)).raised # None
         THEN ErrorRaised(layer_section(lines, i + 1, 0, Dict(<<>>)).raised)
         ELSE layer_lines(lines, layer_section(lines, i + 1, 0, Dict(<<>>)).j,
                  put(yaml_result, split_key(lines[i]),
                      layer_section(lines, i + 1, 0, Dict(<<>>)).section),
                  split_key(lines[i]))
    ELSE IF current_section # None /\ split_value(lines[i]) # ""
    THEN IF section_of(yaml_result, current_section).kind = "list"
         THEN ErrorRaised("TypeError")
         ELSE layer_lines(lines, i + 1,
                  put_nested(yaml_result, current_section, split_key(lines[i]),
                             Scalar(split_value(lines[i]))),
                  current_section)
    ELSE layer_lines(lines, i + 1, yaml_result, current_section)

\* LLMInferenceLayer._yaml_to_dict(yaml_text)
layer_yaml_to_dict(lines) == layer_lines(lines, 1, <<>>, None)

\* the pieces a text is put together from after its `key:` header: a nested
\* `sub:` with its first bullet, a further bullet, a sibling `k: v`, a blank
\* line, a top-level `top: w`, a line of words, a bullet holding a colon, a
\* bullet at zero indentation, an indented comment, a second nested key
YamlPieces ==
    { <<Pair(2, "sub", ""), Item(4, "a")>>,
      <<Item(4, "b")>>,
      <<Pair(2, "k", "v")>>,
      <<Blank>>,
      <<Pair(0, "top", "w")>>,
      <<Prose(0)>>,
      <<ItemPair(4, "c", "1")>>,
      <<Item(0, "z")>>,
      <<Comment(2)>>,
      <<Pair(2, "s2", "")>> }

\* the lines of the pieces of a choice, in order
RECURSIVE join_pieces(_)
join_pieces(pieces) ==
    IF pieces = <<>> THEN <<>>
    ELSE Head(pieces) \o join_pieces(Tail(pieces))

\* the texts handed to the parsers: the header and up to MaxPieces pieces
YamlTexts ==
    { <<Pair(0, "key", "")>> \o join_pieces(pieces) :
        pieces \in UNION { [1..n -> YamlPieces] : n \in 0..MaxPieces } }

InitYaml ==
    /\ IdleValidate
    /\ IdleRun
    /\ IdleRetry
    /\ IdleParse
    /\ IdleNormalize
    /\ IdleV2
    /\ IdleExtract
    /\ yaml_lines \in YamlTexts
    /\ yaml_done = {}
    /\ yaml_core = NoDict
    /\ yaml_layer = NoDict

\* data = self._yaml_to_dict(cleaned) in LLMInferenceClient.parse_response
ClientYamlToDict ==
    /\ "core" \notin yaml_done
    /\ yaml_core' = core_yaml_to_dict(yaml_lines)
    /\ yaml_done' = yaml_done \cup {"core"}
    /\ UNCHANGED <<yaml_lines, yaml_layer>>
    /\ UNCHANGED <<vvars, rvars, tvars, pvars, nvars, ovars, evars>>

\* data = self._yaml_to_dict(cleaned) in LLMInferenceLayer.parse_response
LayerYamlToDict ==
    /\ "layer" \notin yaml_done
    /\ yaml_layer' = layer_yaml_to_dict(yaml_lines)
    /\ yaml_done' = yaml_done \cup {"layer"}
    /\ UNCHANGED <<yaml_lines, yaml_core>>
    /\ UNCHANGED <<vvars, rvars, tvars, pvars, nvars, ovars, evars>>

NextYaml == ClientYamlToDict \/ LayerYamlToDict

SpecYaml == InitYaml /\ [][NextYaml]_vars

\* ---------------------------------------------------------------------
\* Claims about the fallback parsers
\* ---------------------------------------------------------------------

\* the first line after the header that is not blank, is not a list line
\* and is indented no more than the header; Len + 1 when there is none
RECURSIVE block_end(_, _)
block_end(lines, t) ==
    IF t > Len(lines) THEN t
    ELSE IF ~stripped_empty(lines[t]) /\ ~starts_dash(lines[t]) /\ lines[t].indent <= 0
    THEN t
    ELSE block_end(lines, t + 1)

\* line p is a bullet of the list opened by the valueless nested line q:
\* only blank lines and bullets one level deeper lie between them
BulletOf(lines, q, p) ==
    /\ q < p
    /\ lines[q].kind = "pair" /\ lines[q].value = "" /\ lines[q].indent = 2
    /\ \A n \in (q + 1)..p :
           \/ stripped_empty(lines[n])
           \/ lines[n].kind = "item" /\ lines[n].indent = 4

\* the text is a header followed by a nested block of the kind described:
\* nested `sub:` and `k: v` lines one level in, `- item` lines one level
\* deeper under a `sub:` line, and blank lines
NestedBlock(lines) ==
    \A p \in 2..(block_end(lines, 2) - 1) :
        \/ stripped_empty(lines[p])
        \/ lines[p].kind = "pair" /\ lines[p].indent = 2
        \/ \E q \in 2..(p - 1) : BulletOf(lines, q, p)

\* the items of the bullets of q, in order
RECURSIVE bullets_from(_, _, _)
bullets_from(lines, q, p) ==
    IF p > Len(lines) \/ ~BulletOf(lines, q, p) THEN <<>>
    ELSE IF stripped_empty(lines[p]) THEN bullets_from(lines, q, p + 1)
    ELSE <<lines[p].value>> \o bullets_from(lines, q, p + 1)

\* what the nested line p of the block says its key is bound to
NestedValue(lines, p) ==
    IF lines[p].value # "" THEN Scalar(lines[p].value)
    ELSE List(bullets_from(lines, p, p + 1))

\* the parser returned a dict in which the header's key is a mapping that
\* holds every nested key of the block with its value or its list of items,
\* and in which the `top: w` line that ends the block is a top-level entry
BlockParsed(lines, returned) ==
    /\ returned.raised = None
    /\ \E e \in EntrySet(returned.value.entries) :
        /\ e.key = lines[1].key
        /\ e.value.kind = "dict"
        /\ \A p \in 2..(block_end(lines, 2) - 1) :
               (/\ lines[p].kind = "pair"
                /\ \A n \in (p + 1)..(block_end(lines, 2) - 1) :
                       ~(lines[n].kind = "pair" /\ lines[n].key = lines[p].key))
               => Entry(lines[p].key, NestedValue(lines, p)) \in EntrySet(e.value.entries)
    /\ (/\ block_end(lines, 2) <= Len(lines)
        /\ lines[block_end(lines, 2)].kind = "pair"
        /\ lines[block_end(lines, 2)].value # "")
       => \E e \in EntrySet(returned.value.entries) :
              /\ e.key = lines[block_end(lines, 2)].key
              /\ e.value.kind = "scalar"

\* the text without its blank lines
without_blank(lines) == SelectSeq(lines, LAMBDA line : ~stripped_empty(line))

\* C25: for a zero-indentation header `key:` followed by nested `sub:` lines
\* with `- item` lines one level deeper and sibling `k: v` lines, each
\* _yaml_to_dict maps key to a mapping in which sub is the list of those
\* items in order and k is v; blank lines between the lines do not change
\* the result; and the block ends at the first non-list line indented no
\* more than the header
C25_NestedListParsed ==
    NestedBlock(yaml_lines) =>
        /\ "core" \in yaml_done =>
               /\ BlockParsed(yaml_lines, yaml_core)
               /\ yaml_core = core_yaml_to_dict(without_blank(yaml_lines))
        /\ "layer" \in yaml_done =>
               /\ BlockParsed(yaml_lines, yaml_layer)
               /\ yaml_layer = layer_yaml_to_dict(without_blank(yaml_lines))

\* ---------------------------------------------------------------------
\* Claims about the FrameworkResults of a finished run
\* ---------------------------------------------------------------------

\* the fields of a FrameworkResult agree with its terminal state
TerminalStateAgrees(r) ==
    /\ r.execution_status \in FrameworkExecutionStatus
    /\ (r.success = FALSE) <=> (r.execution_status = FAILED)
    /\ r.execution_status = INSUFFICIENT => (r.success = TRUE /\ r.claims = <<>>)
    /\ r.execution_status = SUCCESSFUL => r.success = TRUE
    /\ r.execution_status # SUCCESSFUL => r.execution_reason # None

\* C26: in every AnalysisResult returned by run_analysis_with_frameworks each
\* FrameworkResult is in exactly one terminal state and its fields agree with
\* it: success is False iff the status is failed, insufficient implies
\* success and no claims, successful implies success, and every result that
\* is not successful carries an execution_reason
C26_TerminalStateConsistent ==
    pc = "done" =>
        \A n \in 1..Len(framework_results) : TerminalStateAgrees(framework_results[n])

\* a finished run that holds a failed and an insufficient FrameworkResult
C26_Witness ==
    /\ pc = "done"
    /\ \E n \in 1..Len(framework_results) :
           framework_results[n].execution_status = FAILED
    /\ \E n \in 1..Len(framework_results) :
           framework_results[n].execution_status = INSUFFICIENT

\* ---------------------------------------------------------------------
\* Claims about what the claim validator reads
\* ---------------------------------------------------------------------

\* the claim names an option that is not in the list of valid options
NamesUnknownOption(claim, options) ==
    \E k \in 1..Len(claim.applicable_options) :
        \A n \in 1..Len(options) : options[n] # claim.applicable_options[k]

\* C27: the result of validate_claims_option_binding does not depend on its
\* options argument: any other option list gives the same list for the same
\* claims, so a claim that passes the rule of its type is accepted also when
\* it names an option that is not among the valid options
C27_OptionsIgnored ==
    vpc = "bound" =>
        /\ \A options \in OptionLists :
               validate_claims_option_binding(vclaims, options) = vvalid
        /\ \A k \in 1..Len(vclaims) :
               (~ClaimRejected(vclaims[k]) /\ NamesUnknownOption(vclaims[k], voptions))
                   => \E n \in 1..Len(vvalid) : vvalid[n] = vclaims[k]

\* an option_specific claim for A was validated against the options B and C
\* and was accepted
C27_Witness ==
    /\ vpc = "bound"
    /\ voptions = <<"B", "C">>
    /\ \E k \in 1..Len(vclaims) : vclaims[k] = AnalyticalClaim(OPTION_SPECIFIC, <<"A">>)
    /\ \E n \in 1..Len(vvalid) : vvalid[n] = AnalyticalClaim(OPTION_SPECIFIC, <<"A">>)

\* ---------------------------------------------------------------------
\* Claims about system_level claims in the sufficiency summary
\* ---------------------------------------------------------------------

\* the options of the focus do not include the literal name "all", and
\* every claim left in the framework results is a system_level claim
OnlySystemLevelClaims ==
    /\ context.decision_focus.present
    /\ \A k \in 1..Len(context.decision_focus.options) :
           context.decision_focus.options[k] # "all"
    /\ \A n \in 1..Len(framework_results) :
           \A c \in 1..Len(framework_results[n].claims) :
               framework_results[n].claims[c].claim_type = SYSTEM_LEVEL

FailedOnce(name, n) ==
    /\ frameworks[n] = name
    /\ \A m \in 1..Len(frameworks) : frameworks[m] = name => m = n
    /\ raised[n] # None

\* C29: when porter (respectively systems_dynamics) fails during
\* run_analysis_with_frameworks, the failure message survives sufficiency
\* validation: the framework's FrameworkResult keeps error_message equal to
\* the message, and the AnalysisResult has porter_error (respectively
\* systems_error) equal to it and the corresponding analysis field empty
C29_FailureMessageSurvives ==
    pc = "done" =>
        \A n \in 1..Len(framework_results) :
            /\ FailedOnce("porter", n) =>
                   /\ framework_results[n].error_message = raised[n]
                   /\ porter_error = raised[n]
                   /\ porter_result = None
            /\ FailedOnce("systems_dynamics", n) =>
                   /\ framework_results[n].error_message = raised[n]
                   /\ systems_error = raised[n]
                   /\ systems_result = None

\* ---------------------------------------------------------------------
\* Claims about validating a FrameworkResult again
\* ---------------------------------------------------------------------

\* the fields of a FrameworkResult that tell its terminal state
TerminalState(r) ==
    <<r.success, r.execution_status, r.execution_reason, r.claims>>

\* C30: sufficiency validation is idempotent: validating the result of
\* validate_framework_sufficiency again, with the same context, returns a
\* result with the same success flag, execution_status, execution_reason and
\* claims; a terminal state and its reason are not changed
C30_ValidationIdempotent ==
    vpc = "revalidated" => TerminalState(vagain) = TerminalState(vret_before)

====
